---- MODULE Spec2Model ----
(***************************************************************************)
(* A model of the sniffer observer pipeline: the Sink (Sinker.Fetch /      *)
(* Sinker.GetUtilization), the process-socket resolver (ProcessMonitor     *)
(* and netlinkConn) and the port fallback of the stats manager.            *)
(***************************************************************************)
EXTENDS Integers, Sequences, FiniteSets, TLC

\* ------------------------------------------------------------------ bounds
MaxFetch == 3
MaxDrains == 2
MaxRefresh == 2
MaxPids == 11
MaxTop == 3
MaxRecs == 2

\* ------------------------------------------------------------------ types
\* A Go pointer is a sequence: << >> is nil, <<v>> points at v.
Nil == << >>

Ptr(v) == <<v>>

ProtoTCP == "tcp"
ProtoUDP == "udp"

DirectionUpload == 0
DirectionDownload == 1

LocalSocket(ip, port, proto) == [IP |-> ip, Port |-> port, Protocol |-> proto]

RemoteSocket(ip, port) == [IP |-> ip, Port |-> port]

Connection(local, remote) == [Local |-> local, Remote |-> remote]

ProcessInfo(pid, name) == [Pid |-> pid, Name |-> name]

\* ------------------------------------------------------------ sink inputs
\* One reader per capture handle; a reader stamps its segments with the
\* device of its handle.
Readers == {"eth0", "lo"}

ConnTCP == Connection(LocalSocket("10.0.0.2", 50000, ProtoTCP), RemoteSocket("1.1.1.1", 443))

ConnUDP == Connection(LocalSocket("10.0.0.2", 5353, ProtoUDP), RemoteSocket("8.8.8.8", 53))

Connections == {ConnTCP, ConnUDP}

\* the TCP flow with its remote address resolved by the DNS lookup, and the
\* UDP flow as seen by a client none of whose devices has address 10.0.0.2
ConnTCPNamed ==
    Connection(LocalSocket("10.0.0.2", 50000, ProtoTCP), RemoteSocket("one.one.one.one", 443))

ConnUDPFar == Connection(LocalSocket("8.8.8.8", 53, ProtoUDP), RemoteSocket("10.0.0.2", 5353))

AllConnections == Connections \cup {ConnTCPNamed, ConnUDPFar}

\* the segments of the TCP flow carry 50 bytes, those of the UDP flow 20
DataLens == {20, 50}

DataLenOf(conn) == IF conn = ConnTCP THEN 50 ELSE 20

SegProcs == {Nil, Ptr(ProcessInfo(42, "curl"))}

Segments(r) ==
    { s \in [Interface : {r}, DataLen : DataLens, Connection : Connections,
             Direction : {DirectionUpload, DirectionDownload}, Process : SegProcs] :
        s.DataLen = DataLenOf(s.Connection) }

\* what the history keeps of a fetched segment: the part the counters depend on
SegKeys == [Connection : AllConnections, Direction : {DirectionUpload, DirectionDownload},
            DataLen : DataLens]

SegKey(seg) == [Connection |-> seg.Connection, Direction |-> seg.Direction,
                DataLen |-> seg.DataLen]

VARIABLES
    heap,        \* the live Utilization maps: id -> map
    sinkUtil,    \* Sinker.utilization: the id of the map the Sink holds
    mut,         \* Sinker.mut: "free" or the holder
    rpc,         \* reader -> position inside Sinker.Fetch
    rseg,        \* reader -> pointer to the Segment passed to Fetch
    tpc,         \* the tick task's position inside GetUtilization
    tlocal,      \* GetUtilization's local `utilization`
    window,      \* history: bag of the segments whose Fetch took the lock since the last drain did
    first,       \* history: Connection -> pointer to the first such segment
    lastDrain,   \* history: pointer to the record of the last returned drain
    nDrains,     \* history: number of drains returned
    nFetch,      \* history: number of Fetch calls that took the lock
    returnedPackets  \* history: packets counted in all maps returned so far

sinkVars == <<heap, sinkUtil, mut, rpc, rseg, tpc, tlocal, window, first,
              lastDrain, nDrains, nFetch, returnedPackets>>

VARIABLES
    now,         \* the wall clock, in seconds
    inodeCache,  \* netlinkConn.inodeCache: nil or pointer to inode -> processCache
    portCache,   \* netlinkConn.portCache: nil or pointer to port -> processCache
    socketMap,   \* ProcessMonitor.socketMap
    muW,         \* ProcessMonitor.mu is held by the writer
    muR,         \* the GetProcess callers that hold ProcessMonitor.mu for reading
    crashed,     \* a runtime panic ended the program
    rfpc,        \* position of the refresh (RefreshProcesses / GetOpenSockets)
    rfNow,       \* getAllProcsInodes' `now`
    rfPids,      \* the PIDs whose scan result is still to come
    inode2Procs, \* getAllProcsInodes' inode2Procs, then getOpenSockets' inodeMap
    rfFds,       \* getOpenSockets' fds still to be received from
    sockets,     \* getOpenSockets' `sockets`
    rfM,         \* sockdiagRecv's `sockets` for the fd being received
    nRefresh,    \* history: refreshes started
    nRecs,       \* history: diagnosis records received by this refresh
    rfSeen,      \* history: (address, port, protocol) of the records received by this refresh
    rfBefore,    \* history: socketMap when the running or failed refresh started
    rfDropped,   \* history: the last swap removed a key of the map before it
    rfOutcome,   \* history: how the last finished refresh ended: "none", "nil", "err"
    rfErrAt,     \* history: where the last failed refresh failed
    gpc,         \* GetProcess caller -> position in the ladder
    gsock,       \* GetProcess caller -> its argument
    gstep,       \* GetProcess caller -> the ladder step it is at, or returned from
    gres,        \* GetProcess caller -> the returned pointer
    gsnap,       \* history: GetProcess caller -> socketMap when it took the read lock
    fbRes,       \* the result getProcNameFallback is returning
    fbAsk        \* the call getProcNameFallback is in: its port and its time,
                 \* Nil outside a call

resVars == <<now, inodeCache, portCache, socketMap, muW, muR, crashed, rfpc, rfNow,
             rfPids, inode2Procs, rfFds, sockets, rfM, nRefresh, nRecs, rfSeen,
             rfBefore, rfDropped, rfOutcome, rfErrAt, gpc, gsock, gstep, gres, gsnap,
             fbRes, fbAsk>>

VARIABLES
    opt,         \* the Options NewPcapClient was called with
    pcpc,        \* NewPcapClient: "new" before the call, then "ok" or "err"
    handlers,    \* PcapClient.handlers: the devices a handle was opened for
    bindIPs,     \* PcapClient.bindIPs
    lpc,         \* reader -> position of its listen goroutine
    lframe,      \* history: reader -> pointer to the frame it read last
    lseg,        \* reader -> the *Segment parsePacket returned for that frame
    wg,          \* PcapClient.wg: the wait group's counter
    ctxDone,     \* PcapClient.ctx is cancelled
    hclosed,     \* the devices whose handle is closed
    cpc,         \* position of PcapClient.Close
    pmon,        \* PcapClient.processMonitor: nil or pointer to its SocketMap
    penv         \* history: what failed inside NewPcapClient, "none" if nothing

pcapVars == <<opt, pcpc, handlers, bindIPs, lpc, lframe, lseg, wg, ctxDone, hclosed, cpc, pmon, penv>>

VARIABLES
    nHandled,    \* history: the drains whose Utilization the tick has dealt with
    stat,        \* StatsManager.stat: nil or pointer to the Stat last put
    resolved,    \* the process name Put gave each Connection of that Stat
    putAt,       \* history: the time of that Put
    nDropped     \* history: the drained Utilizations that were never put

tickVars == <<nHandled, stat, resolved, putAt, nDropped>>

VARIABLES
    hostBig,     \* the host is big-endian
    b16,         \* a be16: the two bytes of a port in network order
    port16       \* sockdiagRecv's `port` for it: nil before the conversion

convVars == <<hostBig, b16, port16>>

VARIABLES
    spc,         \* position of ProcessMonitor.Start: "new", "refreshing", "ok", "err"
    mloop,       \* the refresh goroutine: "none", "select", "refreshing", "exited"
    mbase,       \* history: nRefresh when the running call of RefreshProcesses was made
    mcancel,     \* ProcessMonitor.ctx is cancelled
    mwg,         \* ProcessMonitor.wg
    stpc         \* position of ProcessMonitor.Stop: "idle", "wait", "returned"

lifeVars == <<spc, mloop, mbase, mcancel, mwg, stpc>>

VARIABLES
    snpc,        \* the Sniffer: "new", "open", in Close "pcap", "stop", then "closed"
    uiClosed,    \* history: Sniffer.Close has called s.Ui.Close()
    dnsClosed    \* history: Sniffer.Close has called s.DnsResolver.Close()

snifferVars == <<snpc, uiClosed, dnsClosed>>

VARIABLES
    pids,         \* getAllProcsInodes: the PIDs it is called with
    procfs,       \* what /proc holds for each of them when it is inspected
    ppc,          \* position of getAllProcsInodes: "new", "send", "collect", "returned"
    numWorkers,
    pidChan,      \* the PIDs in the buffer of pidChan
    pidClosed,    \* pidChan is closed
    nSent,        \* the PIDs sent so far
    resultChan,   \* the results in the buffer of resultChan
    resultClosed, \* resultChan is closed
    idle,         \* the workers waiting at `range pidChan`
    scanning,     \* the PIDs a worker is inside getProcInodes for
    exited,       \* the workers that have returned
    poolWg,       \* the WaitGroup of the workers
    closer,       \* the goroutine of wg.Wait(): "none", "wait", "done"
    poolMap,      \* inode2Procs of this call
    poolCache,    \* nl.inodeCache
    nScans,       \* history: per PID, the calls of getProcInodes
    collected     \* history: the results received from resultChan

poolVars == <<pids, procfs, ppc, numWorkers, pidChan, pidClosed, nSent, resultChan, resultClosed,
              idle, scanning, exited, poolWg, closer, poolMap, poolCache, nScans, collected>>

VARIABLES
    rankTable,   \* an aggregate table of the StatsManager: display key -> counters
    rankOrder,   \* the order in which the table is iterated
    rankK,       \* topN: the number of rows asked for
    rankMode,    \* topN: the view mode
    rankOut      \* the list topN has returned, Nil before

rankVars == <<rankTable, rankOrder, rankK, rankMode, rankOut>>

\* the parts of the program looked at on their own
extVars == <<convVars, lifeVars, snifferVars, poolVars, rankVars>>

\* the capture side and the tick of the Sniffer, and those parts
obsVars == <<pcapVars, tickVars, extVars>>

vars == <<sinkVars, resVars, obsVars>>

\* all but the byte order
exceptConv == <<sinkVars, resVars, pcapVars, tickVars, lifeVars, snifferVars, poolVars, rankVars>>

\* all but the life cycle of the ProcessMonitor
exceptLife == <<sinkVars, resVars, pcapVars, tickVars, convVars, snifferVars, poolVars, rankVars>>

\* all but the position of the Sniffer
exceptSniffer == <<sinkVars, resVars, pcapVars, tickVars, convVars, lifeVars, poolVars, rankVars>>

\* all but the ranked lists
exceptRank == <<sinkVars, resVars, pcapVars, tickVars, convVars, lifeVars, snifferVars, poolVars>>

\* all but the worker pool
exceptPool == <<sinkVars, resVars, pcapVars, tickVars, convVars, lifeVars, snifferVars, rankVars>>

EmptyMap == << >>

EmptyBag == [k \in SegKeys |-> 0]

NoFirst == [c \in AllConnections |-> Nil]

\* the Segment a reader is inside Fetch with
Seg(r) == rseg[r][1]

\* map[key] = value on a Go map held as a function
MapPut(m, k, v) == [x \in (DOMAIN m) \cup {k} |-> IF x = k THEN v ELSE m[x]]

\* ------------------------------------------------------------------- Sink
\* NewSinker
SinkInit ==
    /\ heap = [i \in {1} |-> EmptyMap]
    /\ sinkUtil = 1
    /\ mut = "free"
    /\ rpc = [r \in Readers |-> "idle"]
    /\ rseg = [r \in Readers |-> Nil]
    /\ tpc = "idle"
    /\ tlocal = 0
    /\ window = EmptyBag
    /\ first = NoFirst
    /\ lastDrain = Nil
    /\ nDrains = 0
    /\ nFetch = 0
    /\ returnedPackets = 0

\* a reader calls Fetch(seg): c.mut.Lock()
FetchLockShared(r) ==
    /\ rpc[r] = "idle"
    /\ mut \in {"free", "tick"}
    /\ nFetch < MaxFetch
    /\ \E seg \in Segments(r) :
         /\ rseg' = [rseg EXCEPT ![r] = Ptr(seg)]
         /\ window' = [window EXCEPT ![SegKey(seg)] = @ + 1]
         /\ first' = IF first[seg.Connection] = Nil
                     THEN [first EXCEPT ![seg.Connection] = Ptr(seg)]
                     ELSE first
    /\ mut' = r
    /\ rpc' = [rpc EXCEPT ![r] = "locked"]
    /\ nFetch' = nFetch + 1
    /\ UNCHANGED <<heap, sinkUtil, tpc, tlocal, lastDrain, nDrains, returnedPackets>>
    /\ UNCHANGED <<resVars, obsVars>>

FetchLockSeg(r, seg) ==
    /\ rpc[r] = "idle"
    /\ mut = "free"
    /\ nFetch < MaxFetch
    /\ rseg' = [rseg EXCEPT ![r] = Ptr(seg)]
    /\ window' = [window EXCEPT ![SegKey(seg)] = @ + 1]
    /\ first' = IF first[seg.Connection] = Nil
                THEN [first EXCEPT ![seg.Connection] = Ptr(seg)]
                ELSE first
    /\ mut' = r
    /\ rpc' = [rpc EXCEPT ![r] = "locked"]
    /\ nFetch' = nFetch + 1
    /\ UNCHANGED <<heap, sinkUtil, tpc, tlocal, lastDrain, nDrains, returnedPackets>>

\* a reader of the Sink alone: any Segment of its device
FetchLock(r) ==
    /\ \E seg \in Segments(r) : FetchLockSeg(r, seg)
    /\ UNCHANGED <<resVars, obsVars>>

NewConnectionInfo(seg) ==
    [Interface |-> seg.Interface, UploadPackets |-> 0, DownloadPackets |-> 0,
     UploadBytes |-> 0, DownloadBytes |-> 0, Process |-> seg.Process]

\* if _, ok := c.utilization[seg.Connection]; !ok { c.utilization[...] = &ConnectionInfo{...} }
InsertedRefreshing(m, seg) ==
    IF seg.Connection \in DOMAIN m
    THEN [m EXCEPT ![seg.Connection].Process = seg.Process,
                   ![seg.Connection].Interface = seg.Interface]
    ELSE MapPut(m, seg.Connection, NewConnectionInfo(seg))

Inserted(m, seg) ==
    IF seg.Connection \in DOMAIN m
    THEN m
    ELSE MapPut(m, seg.Connection, NewConnectionInfo(seg))

FetchInsert(r) ==
    /\ rpc[r] = "locked"
    /\ heap' = [heap EXCEPT ![sinkUtil] = Inserted(@, Seg(r))]
    /\ rpc' = [rpc EXCEPT ![r] = "inserted"]
    /\ UNCHANGED <<sinkUtil, mut, rseg, tpc, tlocal, window, first, lastDrain,
                   nDrains, nFetch, returnedPackets>>
    /\ UNCHANGED <<resVars, obsVars>>

\* switch seg.Direction: the directional byte and packet counters
AddCountersSwapped(info, seg) ==
    IF seg.Direction = DirectionUpload
    THEN [info EXCEPT !.UploadBytes = @ + 1, !.UploadPackets = @ + seg.DataLen]
    ELSE [info EXCEPT !.DownloadBytes = @ + 1, !.DownloadPackets = @ + seg.DataLen]

\* bytes and packets counted on opposite sides
AddCountersCrossed(info, seg) ==
    IF seg.Direction = DirectionUpload
    THEN [info EXCEPT !.UploadBytes = @ + seg.DataLen, !.DownloadPackets = @ + 1]
    ELSE [info EXCEPT !.DownloadBytes = @ + seg.DataLen, !.UploadPackets = @ + 1]

AddCounters(info, seg) ==
    IF seg.Direction = DirectionUpload
    THEN [info EXCEPT !.UploadBytes = @ + seg.DataLen, !.UploadPackets = @ + 1]
    ELSE [info EXCEPT !.DownloadBytes = @ + seg.DataLen, !.DownloadPackets = @ + 1]

\* the counters of c.utilization[seg.Connection], then the deferred
\* c.mut.Unlock(); the reader waits here if the key is absent (never the case
\* under the lock).
FetchCount(r) ==
    /\ rpc[r] = "inserted"
    /\ Seg(r).Connection \in DOMAIN heap[sinkUtil]
    /\ heap' = [heap EXCEPT ![sinkUtil][Seg(r).Connection] = AddCounters(@, Seg(r))]
    /\ mut' = "free"
    /\ rpc' = [rpc EXCEPT ![r] = "idle"]
    /\ rseg' = [rseg EXCEPT ![r] = Nil]
    /\ UNCHANGED <<sinkUtil, tpc, tlocal, window, first, lastDrain,
                   nDrains, nFetch, returnedPackets>>
    /\ UNCHANGED <<resVars, obsVars>>

\* the tick task calls GetUtilization: c.mut.Lock()
DrainLock ==
    /\ tpc = "idle"
    /\ nDrains < MaxDrains
    /\ mut = "free"
    /\ mut' = "tick"
    /\ tpc' = "locked"
    /\ UNCHANGED <<heap, sinkUtil, rpc, rseg, tlocal, window, first, lastDrain,
                   nDrains, nFetch, returnedPackets>>
    /\ UNCHANGED <<resVars, obsVars>>

\* utilization := c.utilization
DrainTake ==
    /\ tpc = "locked"
    /\ tlocal' = sinkUtil
    /\ tpc' = "taken"
    /\ UNCHANGED <<heap, sinkUtil, mut, rpc, rseg, window, first, lastDrain,
                   nDrains, nFetch, returnedPackets>>
    /\ UNCHANGED <<resVars, obsVars>>

\* c.utilization = make(Utilization)
DrainKeepMap ==
    /\ tpc = "taken"
    /\ tpc' = "replaced"
    /\ UNCHANGED <<heap, sinkUtil, mut, rpc, rseg, tlocal, window, first, lastDrain,
                   nDrains, nFetch, returnedPackets>>
    /\ UNCHANGED <<resVars, obsVars>>

DrainReplace ==
    /\ tpc = "taken"
    /\ heap' = [i \in (DOMAIN heap) \cup {sinkUtil + 1} |->
                  IF i = sinkUtil + 1 THEN EmptyMap ELSE heap[i]]
    /\ sinkUtil' = sinkUtil + 1
    /\ tpc' = "replaced"
    /\ UNCHANGED <<mut, rpc, rseg, tlocal, window, first, lastDrain,
                   nDrains, nFetch, returnedPackets>>
    /\ UNCHANGED <<resVars, obsVars>>

Packets(m) ==
    LET RECURSIVE Sum(_)
        Sum(S) == IF S = {} THEN 0
                  ELSE LET c == CHOOSE x \in S : TRUE
                       IN m[c].UploadPackets + m[c].DownloadPackets + Sum(S \ {c})
    IN Sum(DOMAIN m)

\* return utilization; defer c.mut.Unlock().  The caller keeps the returned
\* map until the next tick; the one before it is garbage.
DrainReturn ==
    /\ tpc = "replaced"
    /\ mut' = "free"
    /\ tpc' = "idle"
    /\ lastDrain' = Ptr([id |-> tlocal, snap |-> heap[tlocal]])
    /\ heap' = [i \in {tlocal, sinkUtil} |-> heap[i]]
    /\ window' = EmptyBag
    /\ first' = NoFirst
    /\ nDrains' = nDrains + 1
    /\ returnedPackets' = returnedPackets + Packets(heap[tlocal])
    /\ UNCHANGED <<sinkUtil, rpc, rseg, tlocal, nFetch>>
    /\ UNCHANGED <<resVars, obsVars>>

SinkNext ==
    \/ \E r \in Readers : FetchLock(r)
    \/ \E r \in Readers : FetchInsert(r)
    \/ \E r \in Readers : FetchCount(r)
    \/ DrainLock
    \/ DrainTake
    \/ DrainReplace
    \/ DrainReturn

\* ------------------------------------------------------- Sink: properties
Directions == {DirectionUpload, DirectionDownload}

\* the sum of DataLen, and the number, of the segments of a bag for one
\* Connection and Direction
BagKeys(bag, conn, dir) ==
    {k \in SegKeys : k.Connection = conn /\ k.Direction = dir /\ bag[k] > 0}

RECURSIVE SumLenOver(_, _)
SumLenOver(bag, K) ==
    IF K = {} THEN 0
    ELSE LET k == CHOOSE x \in K : TRUE
         IN k.DataLen * bag[k] + SumLenOver(bag, K \ {k})

RECURSIVE CountOver(_, _)
CountOver(bag, K) ==
    IF K = {} THEN 0
    ELSE LET k == CHOOSE x \in K : TRUE
         IN bag[k] + CountOver(bag, K \ {k})

SumLen(bag, conn, dir) == SumLenOver(bag, BagKeys(bag, conn, dir))

Count(bag, conn, dir) == CountOver(bag, BagKeys(bag, conn, dir))

BagSize(bag) == CountOver(bag, SegKeys)

ConnsOf(bag) == {c \in AllConnections : \E d \in Directions : Count(bag, c, d) > 0}

\* C1: the map a drain is about to return holds, for every Connection fetched
\* since the previous drain and for no other, upload/download bytes equal to
\* the sum of DataLen over that Connection's segments of the direction and
\* packets equal to their number.
C1_DrainedCountersAreWindowSums ==
    tpc = "replaced" =>
        LET m == heap[tlocal] IN
        /\ DOMAIN m = ConnsOf(window)
        /\ \A c \in DOMAIN m :
             /\ m[c].UploadBytes = SumLen(window, c, DirectionUpload)
             /\ m[c].UploadPackets = Count(window, c, DirectionUpload)
             /\ m[c].DownloadBytes = SumLen(window, c, DirectionDownload)
             /\ m[c].DownloadPackets = Count(window, c, DirectionDownload)

\* three 50-byte uploads on one Connection drain as 150 bytes / 3 packets
C1_Witness ==
    /\ tpc = "replaced"
    /\ ConnTCP \in DOMAIN heap[tlocal]
    /\ heap[tlocal][ConnTCP].UploadBytes = 150
    /\ heap[tlocal][ConnTCP].UploadPackets = 3

\* C2: with readers and the tick task interleaved, a returned map is never
\* changed after its drain returned, a drain returns exactly the segments
\* whose Fetch took the lock between the previous drain and this one, and
\* whenever the lock is free every fetched segment is counted once: in a
\* returned map or in the map the Sink holds.
C2_DrainLinearisable ==
    /\ lastDrain # Nil => heap[lastDrain[1].id] = lastDrain[1].snap
    /\ tpc = "replaced" => Packets(heap[tlocal]) = BagSize(window)
    /\ mut = "free" => returnedPackets + Packets(heap[sinkUtil]) = nFetch

\* a Fetch of a Connection after a drain that returned that Connection
C2_Witness ==
    /\ lastDrain # Nil
    /\ \E c \in DOMAIN lastDrain[1].snap : c \in DOMAIN heap[sinkUtil]
    /\ mut = "free"
    /\ \E r \in Readers : rpc[r] = "idle"

\* C3: when GetUtilization is about to return, the Sink holds an empty map;
\* a drain with no Fetch since the previous drain (or since construction)
\* returns an empty map.
C3_DrainLeavesEmpty ==
    tpc = "replaced" =>
        /\ heap[sinkUtil] = EmptyMap
        /\ sinkUtil # tlocal
        /\ window = EmptyBag => heap[tlocal] = EmptyMap

\* the second of two consecutive drains, the first having returned one entry
\* of 150 bytes / 3 packets
C3_Witness ==
    /\ tpc = "replaced"
    /\ window = EmptyBag
    /\ lastDrain # Nil
    /\ DOMAIN lastDrain[1].snap = {ConnTCP}
    /\ lastDrain[1].snap[ConnTCP].UploadBytes = 150
    /\ lastDrain[1].snap[ConnTCP].UploadPackets = 3

\* C4: every entry of the Sink's map, and of the map a drain is about to
\* return, carries the Process and the Interface of the first segment
\* fetched for its Connection in the window.
FirstKept(m) ==
    \A c \in DOMAIN m :
        /\ first[c] # Nil
        /\ m[c].Process = first[c][1].Process
        /\ m[c].Interface = first[c][1].Interface

C4_FirstProcessKept ==
    /\ tpc \in {"idle", "locked", "taken"} => FirstKept(heap[sinkUtil])
    /\ tpc = "replaced" => FirstKept(heap[tlocal])

\* a later Fetch for a Connection already in the map, with another Process
\* and another Interface, has passed the insert-or-get
C4_Witness ==
    \E r \in Readers :
        /\ rpc[r] = "inserted"
        /\ first[Seg(r).Connection] # Nil
        /\ first[Seg(r).Connection][1].Process # Seg(r).Process
        /\ first[Seg(r).Connection][1].Interface # Seg(r).Interface
        /\ first[Seg(r).Connection][1].Process # Nil

\* the entries a Fetch has inserted and not yet counted: the one state of a
\* map that exists only under the lock of the Sink
C29_BeingCounted(id) ==
    IF id = sinkUtil
    THEN {Seg(r).Connection : r \in {q \in Readers : rpc[q] = "inserted"}}
    ELSE {}

C29_Sound(info) ==
    /\ info.UploadPackets >= 0 /\ info.UploadBytes >= 0
    /\ info.DownloadPackets >= 0 /\ info.DownloadBytes >= 0
    /\ info.UploadPackets = 0 => info.UploadBytes = 0
    /\ info.DownloadPackets = 0 => info.DownloadBytes = 0

\* C29: in the Sink and in every drained Utilization, each ConnectionInfo
\* has four non-negative counters, no bytes in a direction without packets,
\* and at least one packet in some direction.
C29_CountersSound ==
    /\ \A id \in DOMAIN heap : \A conn \in DOMAIN heap[id] :
          /\ C29_Sound(heap[id][conn])
          /\ conn \notin C29_BeingCounted(id) =>
                heap[id][conn].UploadPackets + heap[id][conn].DownloadPackets >= 1
    /\ lastDrain # Nil =>
          \A conn \in DOMAIN lastDrain[1].snap :
              /\ C29_Sound(lastDrain[1].snap[conn])
              /\ lastDrain[1].snap[conn].UploadPackets
                     + lastDrain[1].snap[conn].DownloadPackets >= 1

\* a drained Utilization holds a Connection with uploads only
C29_Witness ==
    /\ lastDrain # Nil
    /\ \E conn \in DOMAIN lastDrain[1].snap :
          /\ lastDrain[1].snap[conn].UploadPackets >= 1
          /\ lastDrain[1].snap[conn].DownloadPackets = 0
          /\ lastDrain[1].snap[conn].DownloadBytes = 0

\* ================================================================ resolver
\* ------------------------------------------------------- the environment
AF_INET == 2
AF_INET6 == 10
IPPROTO_TCP == 6
IPPROTO_UDP == 17

CacheTimeout == 5

\* the instants, in seconds, the clock is read at: ages 0, 1, 4 and 5
Times == {0, 4, 5}

UnknownProcessName == "<UNKNOWN>"

\* /proc: the PIDs, the name each resolves to, the socket inodes there are
Pids == {7, 42}

ProcName(pid) == IF pid = 7 THEN "nginx" ELSE UnknownProcessName

Inodes == {101, 102}

\* the socket inodes a scan of the PID may find under /proc/<pid>/fd
ProcInodes(pid) == IF pid = 7 THEN {{}, {101}} ELSE {{}, {101}, {102}}

ZeroWord == <<0, 0, 0, 0>>

\* A diagnosis record (inetDiagMsg): family, source address words, source
\* port bytes in network order, inode.  Text and PortNum are not read by the
\* program: they say what address and port the record stands for.
DiagRec(family, src, sport, inode, text, portnum) ==
    [Family |-> family, Src |-> src, Sport |-> sport, Inode |-> inode,
     Text |-> text, PortNum |-> portnum]

Req(proto, family) == [Protocol |-> proto, Family |-> family]

\* the records the kernel may answer a request with
DiagRecords(req) ==
    IF req.Family = AF_INET
    THEN IF req.Protocol = IPPROTO_TCP
         THEN { DiagRec(AF_INET, << <<192, 168, 1, 5>>, ZeroWord, ZeroWord, ZeroWord>>,
                        <<31, 144>>, 101, "192.168.1.5", 8080),
                DiagRec(AF_INET, <<ZeroWord, ZeroWord, ZeroWord, ZeroWord>>,
                        <<31, 144>>, 102, "0.0.0.0", 8080),
                DiagRec(AF_INET, << <<192, 168, 1, 5>>, ZeroWord, ZeroWord, ZeroWord>>,
                        <<1, 187>>, 101, "192.168.1.5", 443) }
         ELSE { DiagRec(AF_INET, << <<192, 168, 1, 5>>, ZeroWord, ZeroWord, ZeroWord>>,
                        <<31, 144>>, 102, "192.168.1.5", 8080) }
    ELSE { DiagRec(AF_INET6, <<ZeroWord, ZeroWord, ZeroWord, ZeroWord>>,
                   <<31, 144>>, 101, "::", 8080) }

\* ---------------------------------------------------------- conversions
\* net.IPv4(b[0], b[1], b[2], b[3]).String()
ipv4(b) ==
    ToString(b[1]) \o "." \o ToString(b[2]) \o "." \o ToString(b[3]) \o "." \o ToString(b[4])

HexDigit(n) ==
    <<"0", "1", "2", "3", "4", "5", "6", "7", "8", "9", "a", "b", "c", "d", "e", "f">>[n + 1]

RECURSIVE Hex(_)
Hex(n) == IF n < 16 THEN HexDigit(n) ELSE Hex(n \div 16) \o HexDigit(n % 16)

\* net.IP(16 bytes).String(), for the addresses whose first three words are
\* zero: "::", or "::" followed by the low 32 bits as one or two groups
ipv6(b) ==
    LET hi == 256 * b[4][1] + b[4][2]
        lo == 256 * b[4][3] + b[4][4]
    IN IF hi = 0 /\ lo = 0 THEN "::"
       ELSE IF hi = 0 THEN "::" \o Hex(lo)
       ELSE "::" \o Hex(hi) \o ":" \o Hex(lo)

ipHex2String(family, ip) ==
    IF family = AF_INET THEN ipv4(ip[1])
    ELSE IF family = AF_INET6 THEN ipv6(ip)
    ELSE ""

\* be16.Swap on a little-endian host
Swap(i) == ((i % 65536) \div 256) + (i % 256) * 256

\* be16.Int on a little-endian host: the two bytes read as a native uint16,
\* then swapped
be16IntNoSwap(v) == v[1] + 256 * v[2]

be16Int(v) == Swap(v[1] + 256 * v[2])

ProtocolOf(proto) ==
    IF proto = IPPROTO_TCP THEN ProtoTCP
    ELSE IF proto = IPPROTO_UDP THEN ProtoUDP
    ELSE ""

ZeroProcessInfo == ProcessInfo(0, "")

\* m[k] on a Go map of ProcessInfo: the zero value when k is absent
MapGet(m, k) == IF k \in DOMAIN m THEN m[k] ELSE ZeroProcessInfo

MapDelete(m, K) == [x \in (DOMAIN m) \ K |-> m[x]]

\* for k, v := range m { sockets[k] = v }
MapMerge(into, m) ==
    [x \in (DOMAIN into) \cup (DOMAIN m) |-> IF x \in DOMAIN m THEN m[x] ELSE into[x]]

processCache(info, timestamp) == [info |-> info, timestamp |-> timestamp]

\* ProcessInfo.String
String(p) == "<" \o ToString(p.Pid) \o ">:" \o p.Name

\* --------------------------------------------------------- construction
\* the refresh task, the GetProcess callers and the fallback at rest
Callers == {"eth0", "lo"}

QuerySockets == {LocalSocket("192.168.1.5", 8080, ProtoTCP)}

QueryPorts == {8080, 443}

RestInit ==
    /\ now = 0
    /\ socketMap = EmptyMap
    /\ muW = FALSE
    /\ muR = {}
    /\ crashed = FALSE
    /\ rfpc = "idle"
    /\ rfNow = 0
    /\ rfPids = {}
    /\ inode2Procs = EmptyMap
    /\ rfFds = << >>
    /\ sockets = EmptyMap
    /\ rfM = EmptyMap
    /\ nRefresh = 0
    /\ nRecs = 0
    /\ rfSeen = {}
    /\ rfBefore = EmptyMap
    /\ rfDropped = FALSE
    /\ rfOutcome = "none"
    /\ rfErrAt = "none"
    /\ gpc = [g \in Callers |-> "idle"]
    /\ gsock = [g \in Callers |-> LocalSocket("", 0, "")]
    /\ gstep = [g \in Callers |-> 0]
    /\ gres = [g \in Callers |-> Nil]
    /\ gsnap = [g \in Callers |-> EmptyMap]
    /\ fbRes = ""
    /\ fbAsk = Nil

\* NewProcessMonitor: nlConn is &netlinkConn{}, its cache maps are nil
MonitorInit ==
    /\ RestInit
    /\ inodeCache = Nil
    /\ portCache = Nil

\* GetSocketFetcher: both cache maps are made
FetcherInit ==
    /\ RestInit
    /\ inodeCache = Ptr(EmptyMap)
    /\ portCache = Ptr(EmptyMap)

gVars == <<gpc, gsock, gstep, gres, gsnap>>

fbVars == <<fbRes, fbAsk>>

\* ---------------------------------------------------------------- refresh
\* listPids fails: the refresh returns the error
RefreshListFail ==
    /\ rfpc = "idle"
    /\ ~crashed
    /\ nRefresh < MaxRefresh
    /\ nRefresh' = nRefresh + 1
    /\ rfBefore' = socketMap
    /\ rfDropped' = FALSE
    /\ rfSeen' = {}
    /\ nRecs' = 0
    /\ rfOutcome' = "err"
    /\ rfErrAt' = "list"
    /\ UNCHANGED <<now, inodeCache, portCache, socketMap, muW, muR, crashed, rfpc, rfNow,
                   rfPids, inode2Procs, rfFds, sockets, rfM>>
    /\ UNCHANGED <<gVars, fbVars, sinkVars, obsVars>>

\* the cached entries getAllProcsInodes starts from
ValidCached(cache, t) ==
    [i \in {x \in DOMAIN cache : t - cache[x].timestamp < CacheTimeout} |-> cache[i].info]

\* listPids, then getAllProcsInodes up to the start of the workers
RefreshBegin ==
    /\ rfpc = "idle"
    /\ ~crashed
    /\ nRefresh < MaxRefresh
    /\ \E listing \in SUBSET Pids : rfPids' = listing
    /\ rfNow' = now
    /\ inode2Procs' = IF inodeCache = Nil THEN EmptyMap ELSE ValidCached(inodeCache[1], now)
    /\ rfpc' = "scan"
    /\ nRefresh' = nRefresh + 1
    /\ rfBefore' = socketMap
    /\ rfDropped' = FALSE
    /\ rfSeen' = {}
    /\ nRecs' = 0
    /\ UNCHANGED <<now, inodeCache, portCache, socketMap, muW, muR, crashed,
                   rfFds, sockets, rfM, rfOutcome, rfErrAt>>
    /\ UNCHANGED <<gVars, fbVars, sinkVars, obsVars>>

\* getProcInodes(pid) fails: the worker sends no result
ScanFail(pid) ==
    /\ rfpc = "scan"
    /\ ~crashed
    /\ pid \in rfPids
    /\ rfPids' = rfPids \ {pid}
    /\ UNCHANGED <<now, inodeCache, portCache, socketMap, muW, muR, crashed, rfpc, rfNow,
                   inode2Procs, rfFds, sockets, rfM, nRefresh, nRecs, rfSeen, rfBefore, rfDropped,
                   rfOutcome, rfErrAt>>
    /\ UNCHANGED <<gVars, fbVars, sinkVars, obsVars>>

PutAll(m, K, v) == [x \in (DOMAIN m) \cup K |-> IF x \in K THEN v ELSE m[x]]

\* the result of one PID is collected: inode2Procs and, under
\* cacheMutex.Lock, the inodeCache get its inodes; the write to the nil cache
\* map panics, after inode2Procs got the first inode
ScanResult(pid) ==
    /\ rfpc = "scan"
    /\ ~crashed
    /\ pid \in rfPids
    /\ rfPids' = rfPids \ {pid}
    /\ \E inodes \in ProcInodes(pid) :
         LET info == ProcessInfo(pid, ProcName(pid)) IN
         /\ inodes # {} => fbAsk = Nil
         /\ IF inodes # {} /\ inodeCache = Nil
            THEN /\ crashed' = TRUE
                 /\ \E inode \in inodes : inode2Procs' = MapPut(inode2Procs, inode, info)
                 /\ UNCHANGED inodeCache
            ELSE /\ crashed' = FALSE
                 /\ inode2Procs' = PutAll(inode2Procs, inodes, info)
                 /\ inodeCache' = IF inodes = {} THEN inodeCache
                                  ELSE Ptr(PutAll(inodeCache[1], inodes, processCache(info, rfNow)))
    /\ UNCHANGED <<now, portCache, socketMap, muW, muR, rfpc, rfNow,
                   rfFds, sockets, rfM, nRefresh, nRecs, rfSeen, rfBefore, rfDropped,
                   rfOutcome, rfErrAt>>
    /\ UNCHANGED <<gVars, fbVars, sinkVars, obsVars>>

Expired(cache, t) == {i \in DOMAIN cache : t - cache[i].timestamp >= CacheTimeout}

\* all results are collected: the expired inodeCache entries are deleted and
\* getAllProcsInodes returns
Sweep ==
    /\ rfpc = "scan"
    /\ ~crashed
    /\ rfPids = {}
    /\ fbAsk = Nil
    /\ inodeCache' = IF inodeCache = Nil THEN Nil
                     ELSE Ptr(MapDelete(inodeCache[1], Expired(inodeCache[1], rfNow)))
    /\ rfpc' = "send"
    /\ UNCHANGED <<now, portCache, socketMap, muW, muR, crashed, rfNow, rfPids,
                   inode2Procs, rfFds, sockets, rfM, nRefresh, nRecs, rfSeen, rfBefore, rfDropped,
                   rfOutcome, rfErrAt>>
    /\ UNCHANGED <<gVars, fbVars, sinkVars, obsVars>>

Reqs(hasIPv6) ==
    <<Req(IPPROTO_TCP, AF_INET), Req(IPPROTO_UDP, AF_INET)>> \o
    (IF hasIPv6 THEN <<Req(IPPROTO_TCP, AF_INET6), Req(IPPROTO_UDP, AF_INET6)>> ELSE << >>)

\* getOpenSockets: every request is sent
SendAll ==
    /\ rfpc = "send"
    /\ ~crashed
    /\ \E hasIPv6 \in BOOLEAN : rfFds' = Reqs(hasIPv6)
    /\ sockets' = EmptyMap
    /\ rfM' = EmptyMap
    /\ rfpc' = "recv"
    /\ UNCHANGED <<now, inodeCache, portCache, socketMap, muW, muR, crashed, rfNow, rfPids,
                   inode2Procs, nRefresh, nRecs, rfSeen, rfBefore, rfDropped, rfOutcome, rfErrAt>>
    /\ UNCHANGED <<gVars, fbVars, sinkVars, obsVars>>

\* getOpenSockets: a sockdiagSend fails and the refresh returns the error
SendFail ==
    /\ rfpc = "send"
    /\ ~crashed
    /\ rfpc' = "idle"
    /\ rfNow' = 0
    /\ rfOutcome' = "err"
    /\ rfErrAt' = "send"
    /\ inode2Procs' = EmptyMap
    /\ UNCHANGED <<now, inodeCache, portCache, socketMap, muW, muR, crashed, rfPids,
                   rfFds, sockets, rfM, nRefresh, nRecs, rfSeen, rfBefore, rfDropped>>
    /\ UNCHANGED <<gVars, fbVars, sinkVars, obsVars>>

\* the LocalSocket sockdiagRecv stores a record under
RecordKeyRawPort(rec, proto) ==
    LocalSocket(ipHex2String(rec.Family, rec.Src), be16IntNoSwap(rec.Sport) % 65536,
                ProtocolOf(proto))

RecordKey(rec, proto) ==
    LocalSocket(ipHex2String(rec.Family, rec.Src), be16Int(rec.Sport) % 65536,
                ProtocolOf(proto))

\* if procInfo.Name != "" && procInfo.Name != unknownProcessName
PortCacheableAlways(procInfo) == TRUE

PortCacheable(procInfo) == procInfo.Name # "" /\ procInfo.Name # UnknownProcessName

\* sockdiagRecv: one record of the fd being received; writing to the nil
\* portCache map panics
RecvRecord ==
    /\ rfpc = "recv"
    /\ ~crashed
    /\ rfFds # << >>
    /\ nRecs < MaxRecs
    /\ \E rec \in DiagRecords(Head(rfFds)) :
         LET procInfo == MapGet(inode2Procs, rec.Inode)
             key == RecordKey(rec, Head(rfFds).Protocol)
         IN /\ rfM' = MapPut(rfM, key, procInfo)
            /\ rfSeen' = rfSeen \cup {<<rec.Text, rec.PortNum, Head(rfFds).Protocol>>}
            /\ PortCacheable(procInfo) => fbAsk = Nil
            /\ IF ~PortCacheable(procInfo)
               THEN UNCHANGED <<portCache, crashed>>
               ELSE IF portCache = Nil
                    THEN /\ crashed' = TRUE
                         /\ UNCHANGED portCache
                    ELSE /\ crashed' = FALSE
                         /\ portCache' = Ptr(MapPut(portCache[1], key.Port,
                                                    processCache(procInfo, now)))
    /\ nRecs' = nRecs + 1
    /\ UNCHANGED <<now, inodeCache, socketMap, muW, muR, rfpc, rfNow, rfPids,
                   inode2Procs, rfFds, sockets, nRefresh, rfBefore, rfDropped, rfOutcome, rfErrAt>>
    /\ UNCHANGED <<gVars, fbVars, sinkVars, obsVars>>

\* sockdiagRecv ends (NLMSG_DONE or an empty read): its map is merged into
\* getOpenSockets' and the next fd is received from
RecvDone ==
    /\ rfpc = "recv"
    /\ ~crashed
    /\ rfFds # << >>
    /\ sockets' = MapMerge(sockets, rfM)
    /\ rfM' = EmptyMap
    /\ rfFds' = Tail(rfFds)
    /\ rfpc' = IF Tail(rfFds) = << >> THEN "opened" ELSE "recv"
    /\ UNCHANGED <<now, inodeCache, portCache, socketMap, muW, muR, crashed, rfNow, rfPids,
                   inode2Procs, nRefresh, nRecs, rfSeen, rfBefore, rfDropped, rfOutcome, rfErrAt>>
    /\ UNCHANGED <<gVars, fbVars, sinkVars, obsVars>>

\* Recvmsg fails or times out, or the message does not parse:
\* getOpenSockets returns (sockets, err) and the refresh returns the error
RecvErrPublishing ==
    /\ rfpc = "recv"
    /\ ~crashed
    /\ rfFds # << >>
    /\ rfpc' = "idle"
    /\ rfNow' = 0
    /\ rfOutcome' = "err"
    /\ rfErrAt' = "recv"
    /\ socketMap' = MapMerge(sockets, rfM)
    /\ inode2Procs' = EmptyMap
    /\ rfFds' = << >>
    /\ sockets' = EmptyMap
    /\ rfM' = EmptyMap
    /\ UNCHANGED <<now, inodeCache, portCache, muW, muR, crashed, rfPids,
                   nRefresh, nRecs, rfSeen, rfBefore, rfDropped>>
    /\ UNCHANGED <<gVars, fbVars, sinkVars, obsVars>>

RecvErr ==
    /\ rfpc = "recv"
    /\ ~crashed
    /\ rfFds # << >>
    /\ rfpc' = "idle"
    /\ rfNow' = 0
    /\ rfOutcome' = "err"
    /\ rfErrAt' = "recv"
    /\ inode2Procs' = EmptyMap
    /\ rfFds' = << >>
    /\ sockets' = EmptyMap
    /\ rfM' = EmptyMap
    /\ UNCHANGED <<now, inodeCache, portCache, socketMap, muW, muR, crashed, rfPids,
                   nRefresh, nRecs, rfSeen, rfBefore, rfDropped>>
    /\ UNCHANGED <<gVars, fbVars, sinkVars, obsVars>>

\* RefreshProcesses: pm.mu.Lock()
RefreshLockBarging ==
    /\ rfpc = "opened"
    /\ ~crashed
    /\ muW' = TRUE
    /\ rfpc' = "locked"
    /\ UNCHANGED <<now, inodeCache, portCache, socketMap, muR, crashed, rfNow, rfPids,
                   inode2Procs, rfFds, sockets, rfM, nRefresh, nRecs, rfSeen, rfBefore, rfDropped,
                   rfOutcome, rfErrAt>>
    /\ UNCHANGED <<gVars, fbVars, sinkVars, obsVars>>

RefreshLock ==
    /\ rfpc = "opened"
    /\ ~crashed
    /\ muR = {}
    /\ ~muW
    /\ muW' = TRUE
    /\ rfpc' = "locked"
    /\ UNCHANGED <<now, inodeCache, portCache, socketMap, muR, crashed, rfNow, rfPids,
                   inode2Procs, rfFds, sockets, rfM, nRefresh, nRecs, rfSeen, rfBefore, rfDropped,
                   rfOutcome, rfErrAt>>
    /\ UNCHANGED <<gVars, fbVars, sinkVars, obsVars>>

\* pm.socketMap = openSockets; pm.mu.Unlock(); return nil
RefreshSwapMerging ==
    /\ rfpc = "locked"
    /\ socketMap' = MapMerge(socketMap, sockets)
    /\ muW' = FALSE
    /\ rfpc' = "idle"
    /\ rfNow' = 0
    /\ rfOutcome' = "nil"
    /\ inode2Procs' = EmptyMap
    /\ sockets' = EmptyMap
    /\ rfDropped' = ((DOMAIN socketMap) \ (DOMAIN sockets) # {})
    /\ rfBefore' = EmptyMap
    /\ UNCHANGED <<now, inodeCache, portCache, muR, crashed, rfPids,
                   rfFds, rfM, nRefresh, nRecs, rfSeen, rfErrAt>>
    /\ UNCHANGED <<gVars, fbVars, sinkVars, obsVars>>

RefreshSwap ==
    /\ rfpc = "locked"
    /\ socketMap' = sockets
    /\ muW' = FALSE
    /\ rfpc' = "idle"
    /\ rfNow' = 0
    /\ rfOutcome' = "nil"
    /\ inode2Procs' = EmptyMap
    /\ sockets' = EmptyMap
    /\ rfDropped' = ((DOMAIN socketMap) \ (DOMAIN sockets) # {})
    /\ rfBefore' = EmptyMap
    /\ UNCHANGED <<now, inodeCache, portCache, muR, crashed, rfPids,
                   rfFds, rfM, nRefresh, nRecs, rfSeen, rfErrAt>>
    /\ UNCHANGED <<gVars, fbVars, sinkVars, obsVars>>

\* netlinkConn.GetOpenSockets returns getOpenSockets' map
FetcherReturn ==
    /\ rfpc = "opened"
    /\ ~crashed
    /\ rfpc' = "idle"
    /\ sockets' = EmptyMap
    /\ rfSeen' = {}
    /\ rfNow' = 0
    /\ rfOutcome' = "nil"
    /\ inode2Procs' = EmptyMap
    /\ rfBefore' = EmptyMap
    /\ UNCHANGED <<now, inodeCache, portCache, socketMap, muW, muR, crashed, rfPids,
                   rfFds, rfM, nRefresh, nRecs, rfDropped, rfErrAt>>
    /\ UNCHANGED <<gVars, fbVars, sinkVars, obsVars>>

refreshVars == <<inodeCache, portCache, socketMap, muW, crashed, rfpc, rfNow,
                 rfPids, inode2Procs, rfFds, sockets, rfM, nRefresh, nRecs, rfSeen,
                 rfBefore, rfDropped, rfOutcome, rfErrAt>>

\* ------------------------------------------------------------- GetProcess
\* the key GetProcess looks up at each step of its ladder
LadderKeyZeroFirst(socket, step) ==
    IF step = 1 THEN [socket EXCEPT !.IP = "0.0.0.0"]
    ELSE IF step = 2 THEN [socket EXCEPT !.IP = "*"]
    ELSE IF step = 3 THEN socket
    ELSE [socket EXCEPT !.IP = "::"]

LadderKey(socket, step) ==
    IF step = 1 THEN socket
    ELSE IF step = 2 THEN [socket EXCEPT !.IP = "*"]
    ELSE IF step = 3 THEN [socket EXCEPT !.IP = "0.0.0.0"]
    ELSE [socket EXCEPT !.IP = "::"]

\* GetProcess(socket): pm.mu.RLock()
GetProcessLock(g) ==
    /\ gpc[g] = "idle"
    /\ ~crashed
    /\ ~muW
    /\ muR' = muR \cup {g}
    /\ \E socket \in QuerySockets : gsock' = [gsock EXCEPT ![g] = socket]
    /\ gpc' = [gpc EXCEPT ![g] = "ladder"]
    /\ gstep' = [gstep EXCEPT ![g] = 1]
    /\ gres' = [gres EXCEPT ![g] = Nil]
    /\ gsnap' = [gsnap EXCEPT ![g] = socketMap]
    /\ UNCHANGED <<now, refreshVars, fbVars, sinkVars, obsVars>>

\* one `if proc, ok := pm.socketMap[...]; ok { return &proc }`, and the
\* final `return nil`
GetProcessStep(g) ==
    /\ gpc[g] = "ladder"
    /\ ~crashed
    /\ LET key == LadderKey(gsock[g], gstep[g]) IN
       IF key \in DOMAIN socketMap
       THEN /\ gres' = [gres EXCEPT ![g] = Ptr(socketMap[key])]
            /\ gpc' = [gpc EXCEPT ![g] = "ret"]
            /\ UNCHANGED gstep
       ELSE /\ gstep' = [gstep EXCEPT ![g] = @ + 1]
            /\ gpc' = [gpc EXCEPT ![g] = IF gstep[g] = 4 THEN "ret" ELSE "ladder"]
            /\ UNCHANGED gres
    /\ UNCHANGED <<gsock, gsnap, muR>>
    /\ UNCHANGED <<now, refreshVars, fbVars, sinkVars, obsVars>>

\* defer pm.mu.RUnlock(): the call returns gres and its locals are gone
GetProcessReturn(g) ==
    /\ gpc[g] = "ret"
    /\ ~crashed
    /\ muR' = muR \ {g}
    /\ gpc' = [gpc EXCEPT ![g] = "idle"]
    /\ gsock' = [gsock EXCEPT ![g] = LocalSocket("", 0, "")]
    /\ gstep' = [gstep EXCEPT ![g] = 0]
    /\ gres' = [gres EXCEPT ![g] = Nil]
    /\ gsnap' = [gsnap EXCEPT ![g] = EmptyMap]
    /\ UNCHANGED <<now, refreshVars, fbVars, sinkVars, obsVars>>

\* --------------------------------------------------- the port fallback
\* time.Since(cached.timestamp) < 5*time.Second
FreshInclusive(cached, t) == t - cached.timestamp <= CacheTimeout

Fresh(cached, t) == t - cached.timestamp < CacheTimeout

\* StatsManager.getProcNameFallback(localSocket), the Stat carrying the
\* netlinkConn as its SocketFetcher: cacheMutex.RLock, the lookup and the
\* age test
GetProcNameFallback ==
    /\ ~crashed
    /\ portCache # Nil
    /\ fbAsk = Nil
    /\ \E port \in QueryPorts :
         LET found == port \in DOMAIN portCache[1] IN
         /\ fbRes' = IF found /\ Fresh(portCache[1][port], now)
                     THEN String(portCache[1][port].info)
                     ELSE ""
         /\ fbAsk' = Ptr([port |-> port, at |-> now])
    /\ UNCHANGED <<now, refreshVars, muR, gVars, sinkVars, obsVars>>

\* defer fetcher.cacheMutex.RUnlock(): the call returns fbRes
FallbackReturn ==
    /\ ~crashed
    /\ fbAsk # Nil
    /\ fbAsk' = Nil
    /\ fbRes' = ""
    /\ UNCHANGED <<now, refreshVars, muR, gVars, sinkVars, obsVars>>

\* time passes: the clock moves on to a later instant
Tick ==
    /\ ~crashed
    /\ \E t \in Times : t > now /\ now' = t
    /\ UNCHANGED <<refreshVars, muR, gVars, fbVars, sinkVars, obsVars>>

\* ------------------------------------------------- resolver properties
\* the keys the ladder is said to try, in order, for a queried socket
C5_Key(socket, k) ==
    LocalSocket(<<socket.IP, "*", "0.0.0.0", "::">>[k], socket.Port, socket.Protocol)

\* C5: a GetProcess call returns the entry of the first key present in the
\* SocketMap among (ip,port,proto), ("*",port,proto), ("0.0.0.0",port,proto),
\* ("::",port,proto), found by the lookup of that rank, and nil if none is
\* present; port and protocol are those of the query, and the result is
\* determined by the SocketMap alone.
C5_LadderOrder ==
    \A g \in Callers :
        gpc[g] = "ret" =>
            LET present == {k \in 1..4 : C5_Key(gsock[g], k) \in DOMAIN gsnap[g]} IN
            IF present = {}
            THEN gres[g] = Nil /\ gstep[g] = 5
            ELSE \E k \in present :
                    /\ \A j \in present : k <= j
                    /\ gstep[g] = k
                    /\ gres[g] = Ptr(gsnap[g][C5_Key(gsock[g], k)])

\* a query for 192.168.1.5:8080/tcp answered by the 0.0.0.0 listener entry,
\* the exact key being absent while an entry of another port is present
C5_Witness ==
    \E g \in Callers :
        /\ gpc[g] = "ret"
        /\ gstep[g] = 3
        /\ gres[g] # Nil
        /\ LocalSocket("192.168.1.5", 443, ProtoTCP) \in DOMAIN gsnap[g]

\* C6: from its RLock to its return a GetProcess call sees the SocketMap it
\* locked, whatever the refresh does meanwhile, and the map a refresh is
\* building is not the SocketMap until the swap.
C6_SingleMapPerCall ==
    /\ \A g \in Callers : gpc[g] \in {"ladder", "ret"} => socketMap = gsnap[g]
    /\ rfpc \in {"scan", "send", "recv", "opened", "locked"} => socketMap = rfBefore

\* a caller is past its first lookup while the refresh holds a different,
\* complete map and waits for the write lock
C6_Witness ==
    \E g \in Callers :
        /\ gpc[g] = "ladder"
        /\ gstep[g] >= 2
        /\ rfpc = "opened"
        /\ sockets # socketMap
        /\ socketMap # EmptyMap

\* C7: after a RefreshProcesses that returned an error (listing, send or
\* receive) the SocketMap is the one from before the call.
C7_FailedRefreshKeepsMap ==
    rfpc = "idle" /\ rfOutcome = "err" => socketMap = rfBefore

\* a receive failed after records of two protocols, so after a whole tuple
\* had been received, while the previous SocketMap was not empty
C7_Witness ==
    /\ rfpc = "idle"
    /\ rfOutcome = "err"
    /\ rfErrAt = "recv"
    /\ socketMap # EmptyMap
    /\ \E s \in rfSeen, t \in rfSeen : s[3] # t[3]

\* the LocalSocket a record's address, port and protocol stand for
C8_Triple(t) ==
    LocalSocket(t[1], t[2], IF t[3] = 6 THEN "tcp" ELSE "udp")

\* C8: after a RefreshProcesses that returned nil the keys of the SocketMap
\* are exactly the (address, port, protocol) triples of the records received
\* in that refresh.
C8_KeysAreRecordTriples ==
    rfpc = "idle" /\ rfOutcome = "nil" =>
        DOMAIN socketMap = {C8_Triple(t) : t \in rfSeen}

\* a successful refresh dropped a key of the previous map and stored others
C8_Witness ==
    /\ rfpc = "idle"
    /\ rfOutcome = "nil"
    /\ rfDropped
    /\ socketMap # EmptyMap

\* C9: no portCache entry has an empty name or the unknown-process name.
C9_PortCacheNamesKnown ==
    portCache # Nil =>
        \A port \in DOMAIN portCache[1] :
            /\ portCache[1][port].info.Name # ""
            /\ portCache[1][port].info.Name # UnknownProcessName

\* in one receive a record of port 443 resolved to nginx and was cached, a
\* record of port 8080 resolved to the unknown name and created no entry
C9_Witness ==
    /\ rfpc = "recv"
    /\ portCache # Nil
    /\ 443 \in DOMAIN portCache[1]
    /\ 8080 \notin DOMAIN portCache[1]
    /\ \E k \in DOMAIN rfM : k.Port = 8080 /\ rfM[k].Name = UnknownProcessName

\* C10: getProcNameFallback returns the cached process of the port when the
\* port has an entry younger than 5 seconds, and "" otherwise.
C10_FallbackFreshOnly ==
    fbAsk # Nil =>
        LET port == fbAsk[1].port
            young == /\ port \in DOMAIN portCache[1]
                     /\ fbAsk[1].at - portCache[1][port].timestamp \in 0..4
        IN IF young THEN fbRes = String(portCache[1][port].info)
           ELSE fbRes = ""

\* an entry of age 4 s is returned
C10_Witness ==
    /\ fbAsk # Nil
    /\ fbAsk[1].port \in DOMAIN portCache[1]
    /\ fbAsk[1].at - portCache[1][fbAsk[1].port].timestamp = 4
    /\ fbRes = "<7>:nginx"

\* the entries of a cache map that were already CacheTimeout old at time t
C11_Stale(cache, t) == {k \in DOMAIN cache : t - cache[k].timestamp >= CacheTimeout}

\* C11: when a refresh has finished its work (getOpenSockets has returned),
\* neither the inodeCache nor the portCache holds an entry that was 5 s old
\* or older at that refresh.
C11_ExpiredEntriesRemoved ==
    rfpc = "opened" /\ inodeCache # Nil /\ portCache # Nil =>
        /\ C11_Stale(inodeCache[1], rfNow) = {}
        /\ C11_Stale(portCache[1], rfNow) = {}

\* C12: what a refresh holds in its inode->process map is recorded in the
\* inodeCache for the refreshes of the next 5 s, and the map a refresh hands
\* to getOpenSockets holds every inodeCache entry younger than 5 s, with the
\* result of this refresh's scan where there is one.
C12_CachedInodeStillAttributed ==
    /\ \A i \in DOMAIN inode2Procs :
          /\ inodeCache # Nil
          /\ i \in DOMAIN inodeCache[1]
          /\ inodeCache[1][i].info = inode2Procs[i]
    /\ rfpc \in {"send", "recv", "opened"} /\ inodeCache # Nil =>
          \A i \in DOMAIN inodeCache[1] :
              rfNow - inodeCache[1][i].timestamp < CacheTimeout => i \in DOMAIN inode2Procs

\* C31: whatever GetProcess hands back through a non-nil pointer has a
\* name: a socket of the diagnosis stream whose inode no scanned process
\* owns is never answered with the zero ProcessInfo (pid 0, no name), which
\* the caller would attach to its Segment.
C31_ReturnedProcessNamed ==
    \A g \in Callers : gres[g] # Nil => gres[g][1].Name # ""

\* C24: within a refresh the inodeCache and the portCache are written only
\* once the SocketMap has been swapped: no step of a refresh that has not
\* swapped yet changes either cache.
C24_CacheWritesAfterSwap ==
    [][(rfpc \in {"scan", "send", "recv", "opened", "locked"}) =>
          (inodeCache' = inodeCache /\ portCache' = portCache)]_vars

\* C30: a refresh of a ProcessMonitor built by NewProcessMonitor ends by
\* returning nil or an error, never by a runtime fault.
C30_RefreshNeverFaults == ~crashed

\* ================================================================ capture
\* ------------------------------------------------------- the environment
\* the devices pcap.FindAllDevs lists: their names, letter by letter, and
\* their addresses
Devices == Readers

Chars(d) == IF d = "eth0" THEN <<"e", "t", "h", "0">> ELSE <<"l", "o">>

DeviceAddrs(d) == IF d = "eth0" THEN {"10.0.0.2"} ELSE {"127.0.0.1"}

PrefixLists == { << >>, << <<"e", "t", "h">> >>, << <<"w", "l">>, <<"l">> >> }

Options ==
    [AllDevices : BOOLEAN, DevicesPrefix : PrefixLists, BPFFilter : {"", "tcp"},
     DisableDNSResolve : BOOLEAN]

\* what can fail inside NewPcapClient: pcap.FindAllDevs, afpacket.NewTPacket
\* or the BPF filter of a device
Failures == {"none", "find", "open", "bpf"}

\* the Lookup the client is given: three addresses have a name, a miss
\* returns the address
Lookup(ip) ==
    IF ip = "1.1.1.1" THEN "one.one.one.one"
    ELSE IF ip = "8.8.8.8" THEN "dns.google"
    ELSE IF ip = "10.0.0.2" THEN "host.local"
    ELSE ip

\* What a read of the handle yields: Read is ZeroCopyReadPacketData's
\* success, Ether, V4, V6, TCP and UDP say which DecodeFromBytes succeed,
\* IPPayload is the length of the IP payload, Contents and Payload are the
\* lengths of the L4 header and of the L4 payload.
Frame(read, ether, type, v4, v6, src, dst, ippayload, tcp, udp, sport, dport, contents, payload) ==
    [Read |-> read, Ether |-> ether, Type |-> type, V4 |-> v4, V6 |-> v6,
     Src |-> src, Dst |-> dst, IPPayload |-> ippayload, TCP |-> tcp, UDP |-> udp,
     SrcPort |-> sport, DstPort |-> dport, Contents |-> contents, Payload |-> payload]

FrameTCPUp ==
    Frame(TRUE, TRUE, "ipv4", TRUE, FALSE, "10.0.0.2", "1.1.1.1", 50, TRUE, FALSE, 50000, 443, 20, 30)

FrameTCPDown ==
    Frame(TRUE, TRUE, "ipv4", TRUE, FALSE, "1.1.1.1", "10.0.0.2", 50, TRUE, FALSE, 443, 50000, 20, 30)

FrameUDP ==
    Frame(TRUE, TRUE, "ipv4", TRUE, FALSE, "10.0.0.2", "8.8.8.8", 20, FALSE, TRUE, 5353, 53, 8, 12)

FrameARP == Frame(TRUE, TRUE, "arp", FALSE, FALSE, "", "", 0, FALSE, FALSE, 0, 0, 0, 0)

\* frames that are not TCP or UDP over IP: a failed read, a frame that is
\* not Ethernet, ARP, an IP packet that decodes neither as IPv4 nor as IPv6,
\* an IPv4 packet without payload, ICMP over IPv4 and over IPv6
BadFrames ==
    { Frame(FALSE, FALSE, "", FALSE, FALSE, "", "", 0, FALSE, FALSE, 0, 0, 0, 0),
      Frame(TRUE, FALSE, "", FALSE, FALSE, "", "", 0, FALSE, FALSE, 0, 0, 0, 0),
      FrameARP,
      Frame(TRUE, TRUE, "ipv4", FALSE, FALSE, "", "", 0, FALSE, FALSE, 0, 0, 0, 0),
      Frame(TRUE, TRUE, "ipv4", TRUE, FALSE, "10.0.0.2", "1.1.1.1", 0, FALSE, FALSE, 0, 0, 0, 0),
      Frame(TRUE, TRUE, "ipv4", TRUE, FALSE, "10.0.0.2", "1.1.1.1", 64, FALSE, FALSE, 0, 0, 0, 0),
      Frame(TRUE, TRUE, "ipv6", FALSE, TRUE, "::1", "::1", 64, FALSE, FALSE, 0, 0, 0, 0) }

FramesOn(d) ==
    IF d = "eth0" THEN {FrameTCPUp, FrameTCPDown, FrameUDP} \cup BadFrames
    ELSE {FrameUDP, FrameARP}

\* the ProcessMonitor the client is given: none, or one whose last refresh
\* left this SocketMap
PcapSocketMaps ==
    { EmptyMap,
      [k \in {LocalSocket("0.0.0.0", 50000, ProtoTCP)} |-> ProcessInfo(42, "curl")] }

PcapMonitors == {Nil} \cup {Ptr(m) : m \in PcapSocketMaps}

\* ---------------------------------------------------------- construction
PcapInit ==
    /\ opt = Nil
    /\ pcpc = "new"
    /\ handlers = {}
    /\ bindIPs = {}
    /\ lpc = [r \in Readers |-> "none"]
    /\ lframe = [r \in Readers |-> Nil]
    /\ lseg = [r \in Readers |-> Nil]
    /\ wg = 0
    /\ ctxDone = FALSE
    /\ hclosed = {}
    /\ cpc = "idle"
    /\ pmon = Nil
    /\ penv = "none"

\* strings.HasPrefix
HasPrefix(str, pre) == Len(pre) <= Len(str) /\ SubSeq(str, 1, Len(pre)) = pre

listPrefixDevicesExact(prefix, allowAll) ==
    {d \in Devices : allowAll \/ \E i \in 1..Len(prefix) : Chars(d) = prefix[i]}

listPrefixDevices(prefix, allowAll) ==
    {d \in Devices : allowAll \/ \E i \in 1..Len(prefix) : HasPrefix(Chars(d), prefix[i])}

\* the failures that can happen with these Options and devices
Feasible(o, devs) ==
    {"none", "find"} \cup (IF devs # {} THEN {"open"} ELSE {})
                     \cup (IF devs # {} /\ o.BPFFilter # "" THEN {"bpf"} ELSE {})

\* NewPcapClient(lookup, opt, processMonitor): getAvailableDevices, then one
\* `go client.listen(handler)` per handler
NewPcapClient ==
    /\ pcpc = "new"
    /\ \E monitor \in PcapMonitors : pmon' = monitor
    /\ \E o \in Options :
         LET devs == listPrefixDevices(o.DevicesPrefix, o.AllDevices) IN
         \E failure \in Feasible(o, devs) :
            /\ opt' = Ptr(o)
            /\ penv' = failure
            /\ IF failure # "none" \/ devs = {}
               THEN /\ pcpc' = "err"
                    /\ UNCHANGED <<handlers, bindIPs, lpc>>
               ELSE /\ pcpc' = "ok"
                    /\ handlers' = devs
                    /\ bindIPs' = UNION {DeviceAddrs(d) : d \in devs}
                    /\ lpc' = [r \in Readers |-> IF r \in devs THEN "spawned" ELSE "none"]
    /\ UNCHANGED <<lframe, lseg, wg, ctxDone, hclosed, cpc>>
    /\ UNCHANGED <<sinkVars, resVars, tickVars, extVars>>

\* ---------------------------------------------------------------- listen
Layer(kind, src, dst, sport, dport, contents, payload) ==
    [Kind |-> kind, SrcIP |-> src, DstIP |-> dst, SrcPort |-> sport, DstPort |-> dport,
     Contents |-> contents, Payload |-> payload]

IPLayer(kind, f) == Layer(kind, f.Src, f.Dst, 0, 0, 0, 0)

L4Layer(kind, f) == Layer(kind, "", "", f.SrcPort, f.DstPort, f.Contents, f.Payload)

\* the IP part of listen's decoding: `decoded` and len(payload) after the
\* IPv4 attempt and, if that left no payload, the IPv6 attempt
DecodeIP(f) ==
    LET d4 == IF f.V4 THEN <<IPLayer("ipv4", f)>> ELSE << >>
        p4 == IF f.V4 THEN f.IPPayload ELSE 0
    IN  IF p4 = 0 /\ f.V6
        THEN [decoded |-> Append(d4, IPLayer("ipv6", f)), payload |-> f.IPPayload]
        ELSE [decoded |-> d4, payload |-> p4]

\* every frame reaches parsePacket as if it were a TCP segment over IPv4
DecodeAnything(f) == <<IPLayer("ipv4", f), L4Layer("tcp", f)>>

\* one turn of listen's loop up to the call of parsePacket: the `decoded`
\* passed to it, or << >> when the turn ends in a `continue`
Decode(f) ==
    IF ~f.Read \/ ~f.Ether \/ f.Type \notin {"ipv4", "ipv6"} THEN << >>
    ELSE LET ip == DecodeIP(f) IN
         IF Len(ip.decoded) = 0 \/ ip.payload = 0 THEN << >>
         ELSE IF f.TCP THEN Append(ip.decoded, L4Layer("tcp", f))
         ELSE IF f.UDP THEN Append(ip.decoded, L4Layer("udp", f))
         ELSE << >>

\* ProcessMonitor.GetProcess(socket) on the map m, the lock taken at once
RECURSIVE GetProcessFrom(_, _, _)
GetProcessFrom(m, socket, step) ==
    IF step > 4 THEN Nil
    ELSE IF LadderKey(socket, step) \in DOMAIN m THEN Ptr(m[LadderKey(socket, step)])
    ELSE GetProcessFrom(m, socket, step + 1)

GetProcessResult(m, socket) == GetProcessFrom(m, socket, 1)

\* parsePacket's locals before the loop over the layers
ParseLocals ==
    [srcIP |-> "", dstIP |-> "", srcPort |-> 0, dstPort |-> 0, protocol |-> "",
     dataLen |-> 0, direction |-> DirectionDownload]

\* the `switch lyr := layerType.(type)` of parsePacket
ParseLayer(l, lyr, binds) ==
    IF lyr.Kind \in {"ipv4", "ipv6"}
    THEN [l EXCEPT !.srcIP = lyr.SrcIP, !.dstIP = lyr.DstIP,
                   !.direction = IF lyr.SrcIP \in binds THEN DirectionUpload ELSE @]
    ELSE [l EXCEPT !.protocol = IF lyr.Kind = "tcp" THEN ProtoTCP ELSE ProtoUDP,
                   !.srcPort = lyr.SrcPort, !.dstPort = lyr.DstPort,
                   !.dataLen = lyr.Contents + lyr.Payload]

RECURSIVE ParseLayers(_, _, _)
ParseLayers(l, decoded, binds) ==
    IF decoded = << >> THEN l
    ELSE ParseLayers(ParseLayer(l, Head(decoded), binds), Tail(decoded), binds)

\* the address parsePacket puts in Remote.IP
RemoteIPAlways(protocol, ip, disableDNSResolve) ==
    IF ~disableDNSResolve THEN Lookup(ip) ELSE ip

RemoteIP(protocol, ip, disableDNSResolve) ==
    IF protocol = ProtoTCP /\ ~disableDNSResolve THEN Lookup(ip) ELSE ip

\* the Connection of a segment: parsePacket's `switch seg.Direction`
ParseConnectionSwapped(l, disableDNSResolve) ==
    IF l.direction = DirectionDownload
    THEN Connection(LocalSocket(l.srcIP, l.srcPort, l.protocol),
                    RemoteSocket(RemoteIP(l.protocol, l.dstIP, disableDNSResolve), l.dstPort))
    ELSE Connection(LocalSocket(l.dstIP, l.dstPort, l.protocol),
                    RemoteSocket(RemoteIP(l.protocol, l.srcIP, disableDNSResolve), l.srcPort))

ParseConnection(l, disableDNSResolve) ==
    IF l.direction = DirectionUpload
    THEN Connection(LocalSocket(l.srcIP, l.srcPort, l.protocol),
                    RemoteSocket(RemoteIP(l.protocol, l.dstIP, disableDNSResolve), l.dstPort))
    ELSE Connection(LocalSocket(l.dstIP, l.dstPort, l.protocol),
                    RemoteSocket(RemoteIP(l.protocol, l.srcIP, disableDNSResolve), l.srcPort))

\* parsePacket(ph, decoded): nil, or a pointer to the Segment
parsePacket(device, decoded, binds, disableDNSResolve, monitor) ==
    LET l == ParseLayers(ParseLocals, decoded, binds) IN
    IF l.protocol = "" THEN Nil
    ELSE LET conn == ParseConnection(l, disableDNSResolve) IN
         Ptr([Interface |-> device, DataLen |-> l.dataLen, Connection |-> conn,
              Direction |-> l.direction,
              Process |-> IF monitor = Nil THEN Nil
                          ELSE GetProcessResult(monitor[1], conn.Local)])

\* the goroutine starts: c.wg.Add(1)
ListenStart(r) ==
    /\ lpc[r] = "spawned"
    /\ wg' = wg + 1
    /\ lpc' = [lpc EXCEPT ![r] = "select"]
    /\ UNCHANGED <<opt, pcpc, handlers, bindIPs, pmon, lframe, lseg, ctxDone, hclosed, cpc, penv>>
    /\ UNCHANGED <<sinkVars, resVars, tickVars, extVars>>

\* a loop that takes `default` whatever the context says
ListenSelectDeaf(r) ==
    /\ IF lpc[r] = "fetching" THEN rpc[r] = "idle" ELSE lpc[r] = "select"
    /\ lpc' = [lpc EXCEPT ![r] = "read"]
    /\ lframe' = [lframe EXCEPT ![r] = Nil]
    /\ lseg' = [lseg EXCEPT ![r] = Nil]
    /\ UNCHANGED <<opt, pcpc, handlers, bindIPs, pmon, wg, ctxDone, hclosed, cpc, penv>>
    /\ UNCHANGED <<sinkVars, resVars, tickVars, extVars>>

\* the head of the loop, reached at the start and after each `continue`:
\* `case <-c.ctx.Done(): return` with the deferred c.wg.Done(), or `default`
ListenSelect(r) ==
    /\ IF lpc[r] = "fetching" THEN rpc[r] = "idle" ELSE lpc[r] = "select"
    /\ lpc' = [lpc EXCEPT ![r] = IF ctxDone THEN "done" ELSE "read"]
    /\ wg' = IF ctxDone THEN wg - 1 ELSE wg
    /\ lframe' = [lframe EXCEPT ![r] = Nil]
    /\ lseg' = [lseg EXCEPT ![r] = Nil]
    /\ UNCHANGED <<opt, pcpc, handlers, bindIPs, pmon, ctxDone, hclosed, cpc, penv>>
    /\ UNCHANGED <<sinkVars, resVars, tickVars, extVars>>

\* the Fetch calls already promised by readers that hold a Segment
Pending == Cardinality({q \in Readers : lpc[q] = "fetch"})

\* a frame arrives and ZeroCopyReadPacketData returns; the frame is decoded
\* and either dropped or parsed into the Segment for Sinker.Fetch
ListenRead(r) ==
    /\ lpc[r] = "read"
    /\ \E f \in FramesOn(r) :
         LET decoded == Decode(f)
             seg == IF decoded = << >> THEN Nil
                    ELSE parsePacket(r, decoded, bindIPs, opt[1].DisableDNSResolve, pmon)
         IN  /\ seg # Nil => nFetch + Pending < MaxFetch
             /\ lframe' = [lframe EXCEPT ![r] = Ptr(f)]
             /\ lseg' = [lseg EXCEPT ![r] = seg]
             /\ lpc' = [lpc EXCEPT ![r] = IF seg = Nil THEN "select" ELSE "fetch"]
    /\ UNCHANGED <<opt, pcpc, handlers, bindIPs, pmon, wg, ctxDone, hclosed, cpc, penv>>
    /\ UNCHANGED <<sinkVars, resVars, tickVars, extVars>>

\* c.Sinker.Fetch(*seg): the call takes the lock of the Sink
ListenFetch(r) ==
    /\ lpc[r] = "fetch"
    /\ FetchLockSeg(r, lseg[r][1])
    /\ lpc' = [lpc EXCEPT ![r] = "fetching"]
    /\ UNCHANGED <<opt, pcpc, handlers, bindIPs, pmon, lframe, lseg, wg, ctxDone, hclosed, cpc, penv>>
    /\ UNCHANGED <<resVars, tickVars, extVars>>

\* ----------------------------------------------------------------- Close
\* Close(): c.cancel()
CloseCancel ==
    /\ pcpc = "ok"
    /\ cpc = "idle"
    /\ ctxDone' = TRUE
    /\ cpc' = "wait"
    /\ UNCHANGED <<opt, pcpc, handlers, bindIPs, pmon, lpc, lframe, lseg, wg, hclosed, penv>>
    /\ UNCHANGED <<sinkVars, resVars, tickVars, extVars>>

\* c.wg.Wait() returns: the counter is zero
CloseWait ==
    /\ cpc = "wait"
    /\ wg = 0
    /\ cpc' = "close"
    /\ UNCHANGED <<opt, pcpc, handlers, bindIPs, pmon, lpc, lframe, lseg, wg, ctxDone, hclosed, penv>>
    /\ UNCHANGED <<sinkVars, resVars, tickVars, extVars>>

\* the loop of handler.handle.Close(), and Close returns
CloseHandles ==
    /\ cpc = "close"
    /\ hclosed' = handlers
    /\ cpc' = "returned"
    /\ UNCHANGED <<opt, pcpc, handlers, bindIPs, pmon, lpc, lframe, lseg, wg, ctxDone, penv>>
    /\ UNCHANGED <<sinkVars, resVars, tickVars, extVars>>

\* the capture client and its readers' Fetch calls into the Sink
PcapNext ==
    \/ NewPcapClient
    \/ \E r \in Readers : ListenStart(r)
    \/ \E r \in Readers : ListenSelect(r)
    \/ \E r \in Readers : ListenRead(r)
    \/ \E r \in Readers : ListenFetch(r)
    \/ \E r \in Readers : FetchInsert(r)
    \/ \E r \in Readers : FetchCount(r)
    \/ CloseCancel
    \/ CloseWait
    \/ CloseHandles

\* ----------------------------------------------------- capture properties
\* the frame a reader has read and the Segment it made of it
C13_Frame(r) == lframe[r][1]

C13_Up(r) == C13_Frame(r).Src \in bindIPs

C13_Proto(r) == IF C13_Frame(r).TCP THEN ProtoTCP ELSE ProtoUDP

C13_Local(r) ==
    IF C13_Up(r)
    THEN LocalSocket(C13_Frame(r).Src, C13_Frame(r).SrcPort, C13_Proto(r))
    ELSE LocalSocket(C13_Frame(r).Dst, C13_Frame(r).DstPort, C13_Proto(r))

\* the packet's remote address as text
C13_RemoteAddr(r) == IF C13_Up(r) THEN C13_Frame(r).Dst ELSE C13_Frame(r).Src

C13_Resolved(r) ==
    LET m == pmon[1]
        present == {k \in 1..4 : C5_Key(C13_Local(r), k) \in DOMAIN m}
    IN  IF present = {} THEN Nil
        ELSE Ptr(m[C5_Key(C13_Local(r), CHOOSE k \in present : \A j \in present : k <= j)])

\* C13: the Segment made of a decoded TCP or UDP packet has Direction Upload
\* iff the source address is one of the bound addresses; its Local is
\* (srcIP, srcPort, proto) and its Remote port dstPort for an upload, and
\* (dstIP, dstPort, proto) and srcPort for a download, its Remote address
\* being the other address of the packet or the name it resolves to; its
\* DataLen is the L4 header length plus the L4 payload length; its Process
\* is what GetProcess returns for that Local on the monitor's SocketMap, and
\* nil without a monitor.
C13_SegmentOfPacket ==
    \A r \in Readers :
        lseg[r] # Nil =>
            LET s == lseg[r][1] IN
            /\ s.Interface = r
            /\ s.Direction = IF C13_Up(r) THEN DirectionUpload ELSE DirectionDownload
            /\ s.Connection.Local = C13_Local(r)
            /\ s.Connection.Remote.Port =
                   IF C13_Up(r) THEN C13_Frame(r).DstPort ELSE C13_Frame(r).SrcPort
            /\ s.Connection.Remote.IP \in {C13_RemoteAddr(r), Lookup(C13_RemoteAddr(r))}
            /\ s.DataLen = C13_Frame(r).Contents + C13_Frame(r).Payload
            /\ s.Process = IF pmon = Nil THEN Nil ELSE C13_Resolved(r)

\* a download that the monitor attributes to a process has been parsed, and
\* a reader is counting it
C13_Witness ==
    \E r \in Readers :
        /\ lpc[r] = "fetching"
        /\ lseg[r] # Nil
        /\ lseg[r][1].Direction = DirectionDownload
        /\ lseg[r][1].Process = Ptr(ProcessInfo(42, "curl"))

\* C14: the Remote address of a Segment is the DNS lookup of the packet's
\* remote address iff the packet is TCP and DisableDNSResolve is not set;
\* otherwise it is the packet's address as text; the Local address is the
\* packet's address, never its lookup.
C14_LookupOnlyTCPRemote ==
    \A r \in Readers :
        lseg[r] # Nil =>
            /\ lseg[r][1].Connection.Remote.IP =
                   IF C13_Frame(r).TCP /\ ~opt[1].DisableDNSResolve
                   THEN Lookup(C13_RemoteAddr(r))
                   ELSE C13_RemoteAddr(r)
            /\ lseg[r][1].Connection.Local.IP =
                   IF C13_Up(r) THEN C13_Frame(r).Src ELSE C13_Frame(r).Dst

\* a UDP packet whose remote address has a name was parsed with DNS
\* resolution enabled
C14_Witness ==
    \E r \in Readers :
        /\ lseg[r] # Nil
        /\ lframe[r][1].UDP
        /\ ~opt[1].DisableDNSResolve
        /\ Lookup(lseg[r][1].Connection.Remote.IP) # lseg[r][1].Connection.Remote.IP

\* the frames the text says are dropped
C15_Dropped(f) ==
    \/ ~f.Ether
    \/ f.Type \notin {"ipv4", "ipv6"}
    \/ ~f.V4 /\ ~f.V6
    \/ ~f.TCP /\ ~f.UDP

C15_SinkKeysTCPOrUDP ==
    \A id \in DOMAIN heap : \A conn \in DOMAIN heap[id] :
        conn.Local.Protocol \in {ProtoTCP, ProtoUDP}

\* C15: a frame that fails the Ethernet decode, has an EtherType other than
\* IPv4 and IPv6, fails both IP decodes or has an L4 that is neither TCP nor
\* UDP leads to no Fetch: the read that returns it leaves the Sink as it was
\* and takes the reader back to the head of its loop; and every key of the
\* Sink has protocol tcp or udp.
C15_MalformedFramesDropped ==
    /\ [](C15_SinkKeysTCPOrUDP)
    /\ [][\A r \in Readers :
            lpc[r] = "read" /\ lframe'[r] # Nil /\ C15_Dropped(lframe'[r][1]) =>
                /\ UNCHANGED sinkVars
                /\ lseg'[r] = Nil
                /\ lpc'[r] = "select"]_vars

\* a reader has dropped an ICMP packet while the Sink holds a connection
C15_Witness ==
    \E r \in Readers :
        /\ lpc[r] = "select"
        /\ lframe[r] # Nil
        /\ lframe[r][1].V4 /\ lframe[r][1].IPPayload > 0 /\ ~lframe[r][1].TCP /\ ~lframe[r][1].UDP
        /\ lseg[r] = Nil
        /\ DOMAIN heap[sinkUtil] # {}

\* the devices the text says are selected
C16_Selected ==
    {d \in Devices :
        \/ opt[1].AllDevices
        \/ \E i \in 1..Len(opt[1].DevicesPrefix) : \E n \in 0..Len(Chars(d)) :
              SubSeq(Chars(d), 1, n) = opt[1].DevicesPrefix[i]}

\* C16: NewPcapClient opens exactly the devices that AllDevices or a prefix
\* of DevicesPrefix selects; it returns an error if it selects none or if
\* listing the devices, opening a handle or setting the BPF filter fails,
\* and then no reader goroutine exists; it succeeds otherwise.
C16_DevicesSelectedOrError ==
    pcpc # "new" =>
        /\ (pcpc = "err") = (C16_Selected = {} \/ penv # "none")
        /\ pcpc = "ok" => handlers = C16_Selected
        /\ pcpc = "err" => /\ \A r \in Readers : lpc[r] = "none"
                           /\ wg = 0

\* the BPF filter of a selected device could not be set
C16_Witness ==
    /\ pcpc = "err"
    /\ penv = "bpf"
    /\ C16_Selected # {}
    /\ ~opt[1].AllDevices

\* C17: a capture handle is closed only after every reader spawned by
\* NewPcapClient has terminated.
C17_HandlesClosedAfterReaders ==
    hclosed # {} => \A r \in handlers : lpc[r] = "done"

\* C18: once Close has cancelled the context, every reader terminates and
\* Close returns, whether or not another packet arrives.
C18_CloseTerminates ==
    ctxDone ~> (cpc = "returned" /\ \A r \in handlers : lpc[r] = "done")

\* C32: a reader that has seen the cancellation stays where it is, reads no
\* packet and calls no Fetch; no reader is inside a read of a handle that is
\* closed; and once Close has returned no step but a drain of the tick
\* changes what the Sink holds.
C32_CancelledIsTerminal ==
    /\ [](\A r \in Readers : lpc[r] = "read" => r \notin hclosed)
    /\ [][\A r \in Readers :
             (lpc[r] = "done") =>
                 (lpc'[r] = "done" /\ lframe'[r] = lframe[r] /\ rpc'[r] = rpc[r])]_vars
    /\ [][(cpc = "returned" /\ tpc = "idle") => (heap' = heap /\ sinkUtil' = sinkUtil)]_vars

C32_Witness ==
    /\ cpc = "returned"
    /\ hclosed = {"eth0", "lo"}
    /\ lpc["eth0"] = "done"
    /\ lpc["lo"] = "done"
    /\ nFetch > 0

\* ============================================================== the tick
\* The open sockets a GetOpenSockets of the tick finds: the local socket of
\* the TCP flow, owned by a process with a name, by one without, or gone
TickOpenSockets ==
    { EmptyMap,
      [k \in {LocalSocket("10.0.0.2", 50000, ProtoTCP)} |-> ProcessInfo(7, "nginx")],
      [k \in {LocalSocket("10.0.0.2", 50000, ProtoTCP)} |-> ProcessInfo(42, UnknownProcessName)] }

\* the one SocketFetcher there is: the netlinkConn of GetSocketFetcher
Fetcher == Ptr("netlinkConn")

\* Stat{OpenSockets, Utilization, SocketFetcher}
Stat(openSockets, utilization, fetcher) ==
    [OpenSockets |-> openSockets, Utilization |-> utilization, SocketFetcher |-> fetcher]

TickInit ==
    /\ nHandled = 0
    /\ stat = Nil
    /\ resolved = EmptyMap
    /\ putAt = 0
    /\ nDropped = 0

\* sockdiagRecv's writes to portCache, as the caller of GetOpenSockets finds
\* them: every socket of the returned map whose owner has a name is cached
\* under its port with the time of the call
PortsCached(cache, openSockets, t) ==
    [p \in (DOMAIN cache) \cup {k.Port : k \in {x \in DOMAIN openSockets : PortCacheable(openSockets[x])}} |->
        IF \E k \in DOMAIN openSockets : k.Port = p /\ PortCacheable(openSockets[k])
        THEN [info |-> openSockets[CHOOSE k \in DOMAIN openSockets :
                                       k.Port = p /\ PortCacheable(openSockets[k])],
              timestamp |-> t]
        ELSE cache[p]]

\* StatsManager.getProcNameFallback(localSocket), s being s.stat, `cache` the
\* fetcher's portCache and t the time of the call
getProcNameFallback(s, cache, localSocket, t) ==
    IF s.SocketFetcher = Nil THEN ""
    ELSE IF cache # Nil /\ localSocket.Port \in DOMAIN cache[1]
            /\ Fresh(cache[1][localSocket.Port], t)
    THEN String(cache[1][localSocket.Port].info)
    ELSE ""

\* the hit of Put in the open sockets: the socket itself, then its IP
\* replaced by "*", "0.0.0.0" and "::"
OpenSocketsHit(openSockets, localSocket) == GetProcessFrom(openSockets, localSocket, 1)

\* the process name Put resolves for a Connection of the Stat: the process
\* attached to the ConnectionInfo, the hit in the open sockets, the port
\* fallback, the sentinel
ResolveName(s, conn, cache, t) ==
    IF s.Utilization[conn].Process # Nil THEN String(s.Utilization[conn].Process[1])
    ELSE IF OpenSocketsHit(s.OpenSockets, conn.Local) # Nil
         THEN String(OpenSocketsHit(s.OpenSockets, conn.Local)[1])
    ELSE IF getProcNameFallback(s, cache, conn.Local, t) # ""
         THEN getProcNameFallback(s, cache, conn.Local, t)
    ELSE UnknownProcessName

\* StatsManager.Put(s): the Stat is kept and every Connection of its
\* Utilization gets a process name
Put(s, cache) ==
    /\ stat' = Ptr(s)
    /\ resolved' = [conn \in DOMAIN s.Utilization |-> ResolveName(s, conn, cache, now)]
    /\ putAt' = now
    /\ nHandled' = nDrains

\* the Segments of the one device the ticking programs capture on: uploads
\* of the TCP flow, with or without a process attached, and of the UDP flow
TickSegments ==
    {seg \in Segments("eth0") :
        /\ seg.Direction = DirectionUpload
        /\ seg.Connection = ConnUDP => seg.Process = Nil}

\* the reader of that device calls Fetch
TickFetch ==
    /\ \E seg \in TickSegments : FetchLockSeg("eth0", seg)
    /\ UNCHANGED <<resVars, obsVars>>

\* the tick has drained a Utilization and has not yet dealt with it
Drained == tpc = "idle" /\ nHandled < nDrains

\* the tick starts: GetUtilization takes the lock of the Sink
TickGetUtilization ==
    /\ nHandled = nDrains
    /\ DrainLock

\* Sniffer.Refresh on linux, after its GetUtilization:
\* s.StatsManager.Put(Stat{OpenSockets: make(OpenSockets), Utilization: utilization})
SnifferRefresh ==
    /\ Drained
    /\ Put(Stat(EmptyMap, lastDrain[1].snap, Nil), portCache)
    /\ UNCHANGED nDropped
    /\ UNCHANGED <<sinkVars, resVars, pcapVars, extVars>>

\* the loop of main, after its GetUtilization: socketFetcher.GetOpenSockets()
\* returns a map, and
\* statsmanager.Put(Stat{OpenSockets: openSockets, Utilization: utilization, SocketFetcher: socketFetcher})
MainPut ==
    /\ Drained
    /\ portCache # Nil
    /\ \E openSockets \in TickOpenSockets :
         /\ portCache' = Ptr(PortsCached(portCache[1], openSockets, now))
         /\ Put(Stat(openSockets, lastDrain[1].snap, Fetcher), portCache')
    /\ UNCHANGED nDropped
    /\ UNCHANGED <<now, inodeCache, socketMap, muW, muR, crashed, rfpc, rfNow,
                   rfPids, inode2Procs, rfFds, sockets, rfM, nRefresh, nRecs, rfSeen,
                   rfBefore, rfDropped, rfOutcome, rfErrAt, gVars, fbVars>>
    /\ UNCHANGED <<sinkVars, pcapVars, extVars>>

\* the loop of main, after its GetUtilization: socketFetcher.GetOpenSockets()
\* returns an error (listPids failed); the error is logged and the loop
\* goes on to its next turn (test_sniffer.go) or main returns (test_simple.go)
MainOpenSocketsFail ==
    /\ Drained
    /\ nHandled' = nDrains
    /\ nDropped' = nDropped + 1
    /\ UNCHANGED <<stat, resolved, putAt>>
    /\ UNCHANGED <<sinkVars, resVars, pcapVars, extVars>>

\* the Sink with its readers and the tick that drains it
TickNext ==
    \/ TickFetch
    \/ FetchInsert("eth0")
    \/ FetchCount("eth0")
    \/ TickGetUtilization
    \/ DrainTake
    \/ DrainReplace
    \/ DrainReturn
    \/ SnifferRefresh
    \/ MainPut
    \/ MainOpenSocketsFail
    \/ Tick

\* ------------------------------------------------------- tick properties
\* the Connections of the Stat last put that the text says the port cache
\* decides: no process attached, no hit in the open sockets, and a port
\* cache entry of the local port younger than 5 s at the time of the Put
C19_ByPortCache ==
    {conn \in DOMAIN stat[1].Utilization :
        /\ stat[1].Utilization[conn].Process = Nil
        /\ \A k \in 1..4 : C5_Key(conn.Local, k) \notin DOMAIN stat[1].OpenSockets
        /\ portCache # Nil
        /\ conn.Local.Port \in DOMAIN portCache[1]
        /\ putAt - portCache[1][conn.Local.Port].timestamp < CacheTimeout}

\* C19: after the Put of a tick, every Connection without attached process
\* and without hit in the open sockets whose local port has a port cache
\* entry younger than 5 s carries the name of the cached process, whoever
\* made the Put.
C19_PortFallbackOnEveryTick ==
    stat # Nil =>
        \A conn \in C19_ByPortCache :
            resolved[conn] = String(portCache[1][conn.Local.Port].info)

\* C20: once a tick has dealt with the Utilization it drained, that
\* Utilization is the one of the Stat given to Put, whether or not the open
\* sockets could be obtained.
C20_EveryDrainIsPut ==
    tpc = "idle" /\ lastDrain # Nil /\ nHandled = nDrains =>
        /\ stat # Nil
        /\ stat[1].Utilization = lastDrain[1].snap

\* ============================================================ byte order
\* the bytes a be16 can hold
Bytes == 0..255

\* at rest: nothing to convert
ConvInit ==
    /\ hostBig = FALSE
    /\ b16 = <<0, 0>>
    /\ port16 = Nil

\* a diagnosis record's source port, on a host of either byte order
ConvInputs ==
    /\ hostBig \in BOOLEAN
    /\ b16 \in Bytes \X Bytes
    /\ port16 = Nil

\* *(*byte)(unsafe.Pointer(&x)): the byte of a uint32 at the lowest address
FirstByte(x, big) == IF big THEN x \div 16777216 ELSE x % 256

\* getNativeEndian: x is 0x01020304
getNativeEndian(big) ==
    IF FirstByte(16909060, big) = 1 THEN "BigEndian" ELSE "LittleEndian"

\* *(*uint16)(unsafe.Pointer(&v)): the two bytes read in the host's order
NativeUint16(v, big) == IF big THEN 256 * v[1] + v[2] ELSE v[1] + 256 * v[2]

\* be16.Swap on a host of the given byte order
SwapOnAlways(i, big) == ((i % 65536) \div 256) + (i % 256) * 256

SwapOn(i, big) ==
    IF getNativeEndian(big) = "BigEndian" THEN i
    ELSE ((i % 65536) \div 256) + (i % 256) * 256

\* be16.Int on a host of the given byte order
be16IntOn(v, big) == SwapOn(NativeUint16(v, big), big)

\* sockdiagRecv: port := uint16(m.ID.IdiagSport.Int())
ParsePort ==
    /\ port16 = Nil
    /\ port16' = Ptr(be16IntOn(b16, hostBig) % 65536)
    /\ UNCHANGED <<hostBig, b16>>
    /\ UNCHANGED exceptConv

ConvNext == ParsePort

\* C22: for every pair of bytes (b0, b1) of a source port, on a
\* little-endian and on a big-endian host, be16.Int gives 256*b0 + b1, and
\* that value in 16 bits is the port sockdiagRecv uses for the SocketMap key
\* and the portCache key; on a little-endian host it is the port of the
\* resolver's records.
C22_PortIsBigEndian ==
    port16 # Nil =>
        /\ port16[1] = 256 * b16[1] + b16[2]
        /\ ~hostBig => port16[1] = be16Int(b16) % 65536

\* bytes 0x01 0xBB were parsed as 443 on a big-endian host
C22_Witness ==
    /\ hostBig
    /\ b16 = <<1, 187>>
    /\ port16 = Ptr(443)

\* ====================================== ProcessMonitor: Start and Stop
LifeInit ==
    /\ spc = "new"
    /\ mloop = "none"
    /\ mbase = 0
    /\ mcancel = FALSE
    /\ mwg = 0
    /\ stpc = "idle"

\* Start or the refresh goroutine is inside pm.RefreshProcesses()
InRefresh == spc = "refreshing" \/ mloop = "refreshing"

\* that call has begun and has returned
Refreshed == nRefresh > mbase /\ rfpc = "idle" /\ ~crashed

\* Start(): the call of the initial pm.RefreshProcesses()
StartCall ==
    /\ spc = "new"
    /\ nRefresh < MaxRefresh
    /\ spc' = "refreshing"
    /\ mbase' = nRefresh
    /\ UNCHANGED <<mloop, mcancel, mwg, stpc>>
    /\ UNCHANGED exceptLife

\* RefreshProcesses, called by Start or by the goroutine: listPids fails
LifeRefreshListFail ==
    /\ InRefresh
    /\ nRefresh = mbase
    /\ RefreshListFail

\* RefreshProcesses, called by Start or by the goroutine: listPids succeeds
LifeRefreshBegin ==
    /\ InRefresh
    /\ nRefresh = mbase
    /\ RefreshBegin

\* Start(): the initial refresh has returned; on an error Start returns it,
\* otherwise pm.wg.Add(1), the goroutine is started and Start returns nil
StartReturn ==
    /\ spc = "refreshing"
    /\ Refreshed
    /\ IF rfOutcome = "err"
       THEN /\ spc' = "err"
            /\ UNCHANGED <<mwg, mloop>>
       ELSE /\ spc' = "ok"
            /\ mwg' = mwg + 1
            /\ mloop' = "select"
    /\ UNCHANGED <<mbase, mcancel, stpc>>
    /\ UNCHANGED exceptLife

\* the goroutine's select takes `case <-ticker.C` and calls
\* pm.RefreshProcesses(); with the context cancelled and a tick pending the
\* select may still take this case
LoopTick ==
    /\ mloop = "select"
    /\ nRefresh < MaxRefresh
    /\ mloop' = "refreshing"
    /\ mbase' = nRefresh
    /\ UNCHANGED <<spc, mcancel, mwg, stpc>>
    /\ UNCHANGED exceptLife

\* the refresh of a tick has returned, with nil or with an error that the
\* goroutine does not look at: back to the select
LoopRefreshed ==
    /\ mloop = "refreshing"
    /\ Refreshed
    /\ mloop' = "select"
    /\ UNCHANGED <<spc, mbase, mcancel, mwg, stpc>>
    /\ UNCHANGED exceptLife

\* the goroutine's select takes `case <-pm.ctx.Done()`: return, and the
\* deferred pm.wg.Done()
LoopDone ==
    /\ mloop = "select"
    /\ mcancel
    /\ mloop' = "exited"
    /\ mwg' = mwg - 1
    /\ UNCHANGED <<spc, mbase, mcancel, stpc>>
    /\ UNCHANGED exceptLife

\* Stop(): pm.cancel()
StopCancel ==
    /\ spc = "ok"
    /\ stpc = "idle"
    /\ mcancel' = TRUE
    /\ stpc' = "wait"
    /\ UNCHANGED <<spc, mloop, mbase, mwg>>
    /\ UNCHANGED exceptLife

\* Stop(): pm.wg.Wait() returns, and Stop returns
StopReturn ==
    /\ stpc = "wait"
    /\ mwg = 0
    /\ stpc' = "returned"
    /\ UNCHANGED <<spc, mloop, mbase, mcancel, mwg>>
    /\ UNCHANGED exceptLife

\* a ProcessMonitor that is started, refreshes on its ticks and is stopped
LifeNext ==
    \/ StartCall
    \/ LifeRefreshListFail
    \/ LifeRefreshBegin
    \/ \E pid \in Pids : ScanFail(pid)
    \/ \E pid \in Pids : ScanResult(pid)
    \/ Sweep
    \/ SendAll
    \/ SendFail
    \/ RecvRecord
    \/ RecvDone
    \/ RecvErr
    \/ RefreshLock
    \/ RefreshSwap
    \/ StartReturn
    \/ LoopTick
    \/ LoopRefreshed
    \/ LoopDone
    \/ StopCancel
    \/ StopReturn

\* ------------------------------------------------- life-cycle properties
C27_State ==
    \* a refresh called by Start or by the goroutine comes back
    /\ ~crashed
    \* Start that failed has started no goroutine
    /\ spc = "err" => mloop = "none" /\ mwg = 0
    \* until cancellation the goroutine is at its select or in a refresh
    /\ spc = "ok" /\ ~mcancel => mloop \in {"select", "refreshing"}
    \* the goroutine leaves only on cancellation
    /\ mloop = "exited" => mcancel
    \* once Stop has returned the goroutine has exited, outside any refresh
    /\ stpc = "returned" => mloop = "exited" /\ rfpc = "idle"

\* C27: after a successful Start the goroutine refreshes on its ticks until
\* cancellation, whatever its refreshes return; a refresh always comes back
\* to its caller; after a failed initial refresh Start returns the error and
\* no goroutine exists; once Stop has returned the goroutine has exited and
\* the SocketMap is not replaced any more.
C27_RefreshLoopLifecycle ==
    /\ [](C27_State)
    /\ [][(stpc = "returned") => (socketMap' = socketMap)]_vars

\* ============================================ Sniffer: NewSniffer and Close
SnifferInit ==
    /\ snpc = "new"
    /\ uiClosed = FALSE
    /\ dnsClosed = FALSE

\* NewSniffer: NewPcapClient, called once processMonitor.Start() returned nil
NewSnifferPcap ==
    /\ snpc = "new"
    /\ spc = "ok"
    /\ stpc = "idle"
    /\ NewPcapClient

\* NewSniffer: NewPcapClient failed, processMonitor.Stop() is called
NewSnifferStop ==
    /\ snpc = "new"
    /\ pcpc = "err"
    /\ StopCancel

\* NewSniffer: the Sniffer is built and returned
NewSnifferReturn ==
    /\ snpc = "new"
    /\ pcpc = "ok"
    /\ snpc' = "open"
    /\ UNCHANGED <<uiClosed, dnsClosed>>
    /\ UNCHANGED exceptSniffer

\* Close(): s.Ui.Close()
SnifferCloseUi ==
    /\ snpc = "open"
    /\ uiClosed' = TRUE
    /\ snpc' = "pcap"
    /\ UNCHANGED dnsClosed
    /\ UNCHANGED exceptSniffer

\* Close(): s.PcapClient.Close() is called
SnifferClosePcap ==
    /\ snpc = "pcap"
    /\ CloseCancel

\* Close(): s.PcapClient.Close() has returned, s.DnsResolver.Close()
SnifferCloseDns ==
    /\ snpc = "pcap"
    /\ cpc = "returned"
    /\ dnsClosed' = TRUE
    /\ snpc' = "stop"
    /\ UNCHANGED uiClosed
    /\ UNCHANGED exceptSniffer

\* Close(): s.ProcessMonitor.Stop() is called
SnifferCloseStop ==
    /\ snpc = "stop"
    /\ StopCancel

\* Close(): s.ProcessMonitor.Stop() has returned, and Close returns
SnifferCloseReturn ==
    /\ snpc = "stop"
    /\ stpc = "returned"
    /\ snpc' = "closed"
    /\ UNCHANGED <<uiClosed, dnsClosed>>
    /\ UNCHANGED exceptSniffer

\* a Sniffer that is built and closed while no frame arrives and no tick of
\* the ProcessMonitor fires
ShutdownNext ==
    \/ StartCall
    \/ LifeRefreshListFail
    \/ LifeRefreshBegin
    \/ \E pid \in Pids : ScanFail(pid)
    \/ \E pid \in Pids : ScanResult(pid)
    \/ Sweep
    \/ SendAll
    \/ SendFail
    \/ RecvRecord
    \/ RecvDone
    \/ RecvErr
    \/ RefreshLock
    \/ RefreshSwap
    \/ StartReturn
    \/ NewSnifferPcap
    \/ NewSnifferStop
    \/ NewSnifferReturn
    \/ \E r \in Readers : ListenStart(r)
    \/ \E r \in Readers : ListenSelect(r)
    \/ SnifferCloseUi
    \/ SnifferClosePcap
    \/ CloseWait
    \/ CloseHandles
    \/ SnifferCloseDns
    \/ SnifferCloseStop
    \/ LoopDone
    \/ StopReturn
    \/ SnifferCloseReturn

\* --------------------------------------------------- shutdown properties
\* Sniffer.Close is running or has returned
C28_Closing == snpc \in {"pcap", "stop", "closed"}

\* C28: while a Sniffer is shut down, the capture handles are closed only
\* after the cancellation of the readers was signalled and the wait for them
\* has returned, the refresh loop of the ProcessMonitor is stopped only after
\* the handles are closed, and the UI is closed only after that loop stopped.
C28_ShutdownOrder ==
    C28_Closing =>
        /\ cpc \in {"close", "returned"} => ctxDone
        /\ stpc # "idle" => cpc = "returned"
        /\ uiClosed => stpc = "returned"

\* ============================================ getAllProcsInodes: the pool
\* the cap on the number of workers
WorkerCap == 10

\* the PIDs of a listing of n entries, in the order of the listing
PidList(n) == [i \in 1..n |-> i]

\* the lengths of the listings looked at: none, one, two and more than the cap
PoolSizes == {0, 1, 2, MaxPids}

\* ------------------------------------------------------- /proc/<pid>
\* a path as the sequence of its elements; the empty path is ""
PathNginx == <<"usr", "sbin", "nginx">>
PathPython == <<"usr", "bin", "python3">>

\* what os.Readlink("/proc/<pid>/exe") gives: an error (Nil) or the path
ExeLinks == {Nil, Ptr(PathNginx)}

\* what os.ReadFile("/proc/<pid>/cmdline") gives: an error (Nil) or the
\* content as the sequence of its NUL-separated pieces; each piece is a path
CmdLines == {Nil, Ptr(<< >>), Ptr(<< << >>, PathPython >>), Ptr(<<PathPython, <<"-m">> >>)}

\* what os.ReadFile("/proc/<pid>/comm") gives: an error (Nil) or the content
\* as a sequence of words and white-space characters
Comms == {Nil, Ptr(<<"\n">>), Ptr(<<"kworker", "\n">>)}

\* the target of a link of /proc/<pid>/fd: the text before the number, whether
\* the text between it and the last character is a number, and that number
FdLink(prefix, digits, val) == [prefix |-> prefix, digits |-> digits, val |-> val]

\* the links of a readable fd directory (Nil: the readlink fails)
SharedLinks == << Ptr(FdLink("socket:[", TRUE, 101)) >>
OwnLinks(pid) ==
    << Ptr(FdLink("/dev/null", FALSE, 0)), Ptr(FdLink("socket:[", TRUE, 200 + pid)), Nil,
       Ptr(FdLink("socket:[", FALSE, 0)), Ptr(FdLink("pipe:[", TRUE, 7)),
       Ptr(FdLink("socket:[", TRUE, 101)) >>

\* what os.Open and Readdir of /proc/<pid>/fd give
FdDir(err, links) == [err |-> err, links |-> links]
FdDirs(pid) ==
    {FdDir("EACCES", << >>), FdDir("ENOENT", << >>), FdDir("readdir", << >>),
     FdDir("", SharedLinks), FdDir("", OwnLinks(pid))}

\* /proc/<pid> as getProcInodes reads it
ProcEntry(exe, cmdline, comm, fd) == [exe |-> exe, cmdline |-> cmdline, comm |-> comm, fd |-> fd]
ProcEntries(pid) ==
    {ProcEntry(exe, cmdline, comm, fd) :
        exe \in ExeLinks, cmdline \in CmdLines, comm \in Comms, fd \in FdDirs(pid)}

\* a process that is gone when it is inspected
GoneEntry == ProcEntry(Nil, Nil, Nil, FdDir("ENOENT", << >>))

\* the /proc of a listing longer than the cap: two processes are there, one
\* of them of another user, the others are gone when they are inspected
CrowdedProc(pid) ==
    IF pid = 1 THEN ProcEntry(Ptr(PathNginx), Nil, Nil, FdDir("", OwnLinks(pid)))
    ELSE IF pid = 2 THEN ProcEntry(Nil, Ptr(<<PathPython, <<"-m">> >>), Nil, FdDir("EACCES", << >>))
    ELSE GoneEntry

\* the processes listed next to the first one of a short listing
Neighbours(pid) ==
    {GoneEntry,
     ProcEntry(Ptr(PathNginx), Nil, Nil, FdDir("", SharedLinks)),
     ProcEntry(Nil, Nil, Ptr(<<"kworker", "\n">>), FdDir("", OwnLinks(pid))),
     ProcEntry(Nil, Ptr(<<PathPython, <<"-m">> >>), Nil, FdDir("EACCES", << >>)),
     ProcEntry(Ptr(PathNginx), Nil, Nil, FdDir("readdir", << >>))}

\* the /proc trees looked at for a listing of n PIDs
ProcTrees(n) ==
    IF n > 2 THEN {[pid \in 1..n |-> CrowdedProc(pid)]}
    ELSE {[pid \in 1..n |-> IF pid = 1 THEN e1 ELSE e2] :
             e1 \in ProcEntries(1), e2 \in Neighbours(2)}

\* ------------------------------------------------------ getProcInodes
\* filepath.Base
Base(path) == IF path = << >> THEN "." ELSE path[Len(path)]

\* strings.Split(s, "\x00") of a content: the empty content gives one empty piece
Split(content) == IF content = << >> THEN << << >> >> ELSE content

WhiteSpace == {" ", "\n", "\t"}

RECURSIVE TrimLeft(_)
TrimLeft(s) == IF s # << >> /\ Head(s) \in WhiteSpace THEN TrimLeft(Tail(s)) ELSE s

RECURSIVE TrimRight(_)
TrimRight(s) ==
    IF s # << >> /\ s[Len(s)] \in WhiteSpace THEN TrimRight(SubSeq(s, 1, Len(s) - 1)) ELSE s

\* strings.TrimSpace of a content of at most one word
TrimSpace(s) == LET t == TrimRight(TrimLeft(s)) IN IF t = << >> THEN "" ELSE t[1]

\* the name taken from cmdline, "" if there is none
CmdlineName(cmdline) ==
    IF cmdline # Nil /\ Len(cmdline[1]) > 0
    THEN LET parts == Split(cmdline[1]) IN
         IF Len(parts) > 0 /\ parts[1] # << >> THEN Base(parts[1]) ELSE ""
    ELSE ""

\* the name taken from comm first, and from cmdline after it
getProcNameCommFirst(e) ==
    IF e.exe # Nil THEN Base(e.exe[1])
    ELSE IF e.comm # Nil /\ TrimSpace(e.comm[1]) # "" THEN TrimSpace(e.comm[1])
    ELSE CmdlineName(e.cmdline)

\* getProcInodes, the part that finds procName
getProcName(e) ==
    IF e.exe # Nil THEN Base(e.exe[1])
    ELSE IF CmdlineName(e.cmdline) # "" THEN CmdlineName(e.cmdline)
    ELSE IF e.comm # Nil THEN TrimSpace(e.comm[1])
    ELSE ""

\* the loop over the files of the fd directory: the inodes of the links that
\* read "socket:[<number>]", in the order of the directory; the numbers are
\* inode numbers, which uint32 holds unchanged
RECURSIVE SocketInodes(_)
SocketInodes(links) ==
    IF links = << >> THEN << >>
    ELSE LET link == Head(links) IN
         IF link = Nil THEN SocketInodes(Tail(links))
         ELSE IF link[1].prefix # "socket:[" THEN SocketInodes(Tail(links))
         ELSE IF ~link[1].digits THEN SocketInodes(Tail(links))
         ELSE <<link[1].val>> \o SocketInodes(Tail(links))

\* getProcInodes(pid) on the entry e of the PID
getProcInodes(e) ==
    LET procName == getProcName(e) IN
    IF procName = "" THEN [procName |-> "", inodeFds |-> << >>, err |-> TRUE]
    ELSE IF e.fd.err = "EACCES" THEN [procName |-> procName, inodeFds |-> << >>, err |-> FALSE]
    ELSE IF e.fd.err # "" THEN [procName |-> procName, inodeFds |-> << >>, err |-> TRUE]
    ELSE [procName |-> procName, inodeFds |-> SocketInodes(e.fd.links), err |-> FALSE]

\* ------------------------------------------------------------ the pool
PoolInit ==
    /\ pids = << >>
    /\ procfs = << >>
    /\ ppc = "new"
    /\ numWorkers = 0
    /\ pidChan = << >>
    /\ pidClosed = FALSE
    /\ nSent = 0
    /\ resultChan = << >>
    /\ resultClosed = FALSE
    /\ idle = 0
    /\ scanning = {}
    /\ exited = 0
    /\ poolWg = 0
    /\ closer = "none"
    /\ poolMap = EmptyMap
    /\ poolCache = EmptyMap
    /\ nScans = << >>
    /\ collected = << >>

\* a call of getAllProcsInodes on a netlinkConn of GetSocketFetcher, for
\* every listing and /proc tree looked at
PoolInputs ==
    /\ \E n \in PoolSizes :
         /\ pids = PidList(n)
         /\ procfs \in ProcTrees(n)
         /\ nScans = [pid \in 1..n |-> 0]
    /\ ppc = "new"
    /\ numWorkers = 0
    /\ pidChan = << >>
    /\ pidClosed = FALSE
    /\ nSent = 0
    /\ resultChan = << >>
    /\ resultClosed = FALSE
    /\ idle = 0
    /\ scanning = {}
    /\ exited = 0
    /\ poolWg = 0
    /\ closer = "none"
    /\ poolMap = EmptyMap
    /\ poolCache = EmptyMap
    /\ collected = << >>

\* as many workers as PIDs
NumWorkersUncapped(n) == n

\* numWorkers := 10; if len(pids) < numWorkers { numWorkers = len(pids) }
NumWorkers(n) == IF n < WorkerCap THEN n ELSE WorkerCap

\* the capacity of pidChan and of resultChan
ChanCap(n) == n

\* a channel whose receive leaves the value in it
ReceivedKeeping(ch) == ch

\* a buffered channel after a receive
Received(ch) == Tail(ch)

SeqRange(s) == {s[i] : i \in DOMAIN s}

\* the valid cached entries are copied, the channels are made and the
\* workers are started, each after a wg.Add(1); every worker waits at its
\* `range pidChan`
PoolBegin ==
    /\ ppc = "new"
    /\ poolMap' = ValidCached(poolCache, now)
    /\ numWorkers' = NumWorkers(Len(pids))
    /\ poolWg' = NumWorkers(Len(pids))
    /\ idle' = NumWorkers(Len(pids))
    /\ ppc' = "send"
    /\ UNCHANGED <<pids, procfs, pidChan, pidClosed, nSent, resultChan, resultClosed,
                   scanning, exited, closer, poolCache, nScans, collected>>
    /\ UNCHANGED exceptPool

\* pidChan <- pid
PoolSend ==
    /\ ppc = "send"
    /\ nSent < Len(pids)
    /\ Len(pidChan) < ChanCap(Len(pids))
    /\ pidChan' = Append(pidChan, pids[nSent + 1])
    /\ nSent' = nSent + 1
    /\ UNCHANGED <<pids, procfs, ppc, numWorkers, pidClosed, resultChan, resultClosed, idle,
                   scanning, exited, poolWg, closer, poolMap, poolCache, nScans, collected>>
    /\ UNCHANGED exceptPool

\* close(pidChan), and the goroutine that waits for the workers is started
PoolClose ==
    /\ ppc = "send"
    /\ nSent = Len(pids)
    /\ pidClosed' = TRUE
    /\ closer' = "wait"
    /\ ppc' = "collect"
    /\ UNCHANGED <<pids, procfs, numWorkers, pidChan, nSent, resultChan, resultClosed, idle,
                   scanning, exited, poolWg, poolMap, poolCache, nScans, collected>>
    /\ UNCHANGED exceptPool

\* a waiting worker receives a PID and calls getProcInodes
WorkerRecv ==
    /\ idle > 0
    /\ pidChan # << >>
    /\ idle' = idle - 1
    /\ scanning' = scanning \cup {Head(pidChan)}
    /\ nScans' = [nScans EXCEPT ![Head(pidChan)] = @ + 1]
    /\ pidChan' = Received(pidChan)
    /\ UNCHANGED <<pids, procfs, ppc, numWorkers, pidClosed, nSent, resultChan, resultClosed,
                   exited, poolWg, closer, poolMap, poolCache, collected>>
    /\ UNCHANGED exceptPool

\* getProcInodes(pid) returns: on an error `continue`, otherwise the result
\* is sent to resultChan; the worker is back at its `range pidChan`
WorkerScanned(pid) ==
    /\ pid \in scanning
    /\ LET r == getProcInodes(procfs[pid]) IN
       IF r.err
       THEN UNCHANGED resultChan
       ELSE /\ Len(resultChan) < ChanCap(Len(pids))
            /\ resultChan' = Append(resultChan,
                                    [procInfo |-> ProcessInfo(pid, r.procName), inodes |-> r.inodeFds])
    /\ scanning' = scanning \ {pid}
    /\ idle' = idle + 1
    /\ UNCHANGED <<pids, procfs, ppc, numWorkers, pidChan, pidClosed, nSent, resultClosed,
                   exited, poolWg, closer, poolMap, poolCache, nScans, collected>>
    /\ UNCHANGED exceptPool

\* a waiting worker finds pidChan closed and empty: it returns, wg.Done()
WorkerExit ==
    /\ idle > 0
    /\ pidChan = << >>
    /\ pidClosed
    /\ idle' = idle - 1
    /\ exited' = exited + 1
    /\ poolWg' = poolWg - 1
    /\ UNCHANGED <<pids, procfs, ppc, numWorkers, pidChan, pidClosed, nSent, resultChan,
                   resultClosed, scanning, closer, poolMap, poolCache, nScans, collected>>
    /\ UNCHANGED exceptPool

\* wg.Wait() returns in the waiting goroutine: close(resultChan)
CloserDone ==
    /\ closer = "wait"
    /\ poolWg = 0
    /\ resultClosed' = TRUE
    /\ closer' = "done"
    /\ UNCHANGED <<pids, procfs, ppc, numWorkers, pidChan, pidClosed, nSent, resultChan, idle,
                   scanning, exited, poolWg, poolMap, poolCache, nScans, collected>>
    /\ UNCHANGED exceptPool

\* `for res := range resultChan`: one result is received, its inodes go to
\* inode2Procs and, under cacheMutex.Lock, to the inodeCache
PoolCollect ==
    /\ ppc = "collect"
    /\ resultChan # << >>
    /\ LET res == Head(resultChan) IN
       /\ poolMap' = PutAll(poolMap, SeqRange(res.inodes), res.procInfo)
       /\ poolCache' = PutAll(poolCache, SeqRange(res.inodes), processCache(res.procInfo, now))
       /\ collected' = Append(collected, res)
    /\ resultChan' = Tail(resultChan)
    /\ UNCHANGED <<pids, procfs, ppc, numWorkers, pidChan, pidClosed, nSent, resultClosed, idle,
                   scanning, exited, poolWg, closer, nScans>>
    /\ UNCHANGED exceptPool

\* resultChan is closed and empty: the expired entries of the inodeCache are
\* deleted and inode2Procs is returned
PoolReturn ==
    /\ ppc = "collect"
    /\ resultChan = << >>
    /\ resultClosed
    /\ poolCache' = [i \in (DOMAIN poolCache) \ Expired(poolCache, now) |-> poolCache[i]]
    /\ ppc' = "returned"
    /\ UNCHANGED <<pids, procfs, numWorkers, pidChan, pidClosed, nSent, resultChan, resultClosed,
                   idle, scanning, exited, poolWg, closer, poolMap, nScans, collected>>
    /\ UNCHANGED exceptPool

\* one call of getAllProcsInodes
PoolNext ==
    \/ PoolBegin
    \/ PoolSend
    \/ PoolClose
    \/ WorkerRecv
    \/ \E pid \in 1..MaxPids : WorkerScanned(pid)
    \/ WorkerExit
    \/ CloserDone
    \/ PoolCollect
    \/ PoolReturn

\* ------------------------------------------------------ pool properties
\* C25: at every instant of a call of getAllProcsInodes the workers that
\* exist, and with them the PIDs under scan, are at most min(10, number of
\* PIDs); with no PID there is no worker at all.
C25_ScannersBounded ==
    LET most == IF Len(pids) < 10 THEN Len(pids) ELSE 10 IN
    /\ Cardinality(scanning) <= most
    /\ idle + Cardinality(scanning) <= most
    /\ numWorkers <= most

C25_Witness ==
    /\ Len(pids) = MaxPids
    /\ Cardinality(scanning) = 10
    /\ pidChan # << >>

\* the results collected for a PID
C26_Collected(pid) == {i \in DOMAIN collected : collected[i].procInfo.Pid = pid}

\* the PIDs whose scan succeeds and reports the inode
C26_Owners(inode) ==
    {pid \in SeqRange(pids) :
        /\ ~getProcInodes(procfs[pid]).err
        /\ inode \in SeqRange(getProcInodes(procfs[pid]).inodeFds)}

C26_Reported == UNION {SeqRange(getProcInodes(procfs[pid]).inodeFds) : pid \in SeqRange(pids)}

C26_State ==
    /\ \A pid \in SeqRange(pids) :
         /\ nScans[pid] <= 1
         /\ Cardinality(C26_Collected(pid)) <= 1
    /\ ppc = "returned" =>
         /\ \A pid \in SeqRange(pids) :
              /\ nScans[pid] = 1
              /\ Cardinality(C26_Collected(pid)) = IF getProcInodes(procfs[pid]).err THEN 0 ELSE 1
         /\ exited = numWorkers
         /\ idle = 0
         /\ scanning = {}
         /\ poolWg = 0
         /\ DOMAIN poolMap = {inode \in C26_Reported : C26_Owners(inode) # {}}
         /\ \A inode \in DOMAIN poolMap :
              /\ poolMap[inode].Pid \in C26_Owners(inode)
              /\ poolMap[inode].Name = getProcInodes(procfs[poolMap[inode].Pid]).procName

C23_Name(e) ==
    IF e.exe # Nil THEN e.exe[1][Len(e.exe[1])]
    ELSE IF e.cmdline # Nil /\ e.cmdline[1] # << >> /\ e.cmdline[1][1] # << >>
         THEN e.cmdline[1][1][Len(e.cmdline[1][1])]
    ELSE IF e.comm # Nil /\ SeqRange(e.comm[1]) \ {" ", "\n", "\t"} # {}
         THEN CHOOSE w \in SeqRange(e.comm[1]) \ {" ", "\n", "\t"} : TRUE
    ELSE ""

\* the socket inodes among the links of the fd directory of a PID
C23_Sockets(e) ==
    {l[1].val : l \in {k \in SeqRange(e.fd.links) :
                           k # Nil /\ k[1].prefix = "socket:[" /\ k[1].digits}}

\* C23: every result carries the name of the first source that gives one:
\* exe, then the first piece of cmdline, then comm; a PID that no source
\* names gives no result and owns no inode; a PID whose fd directory is
\* closed to the caller gives a result with its name and no inode; and the
\* socket inodes of every PID that was read are in the map returned, whatever
\* happened to the other PIDs.
C23_NamesAndSkips ==
    /\ \A i \in DOMAIN collected :
         LET e == procfs[collected[i].procInfo.Pid] IN
         /\ collected[i].procInfo.Name = C23_Name(e)
         /\ collected[i].procInfo.Name # ""
         /\ e.fd.err = "EACCES" => collected[i].inodes = << >>
    /\ ppc = "returned" =>
         \A pid \in SeqRange(pids) :
            LET e == procfs[pid] IN
            /\ C23_Name(e) = "" =>
                 /\ C26_Collected(pid) = {}
                 /\ \A inode \in DOMAIN poolMap : poolMap[inode].Pid # pid
            /\ C23_Name(e) # "" /\ e.fd.err = "EACCES" => C26_Collected(pid) # {}
            /\ C23_Name(e) # "" /\ e.fd.err = "" => C23_Sockets(e) \subseteq DOMAIN poolMap

C23_Witness ==
    /\ ppc = "returned"
    /\ Len(pids) = 2
    /\ procfs[1].exe = Nil
    /\ procfs[1].cmdline = Ptr(<< << >>, PathPython >>)
    /\ procfs[1].fd.err = ""
    /\ procfs[2].fd.err = "EACCES"
    /\ Len(collected) = 2
    /\ collected[2].procInfo = ProcessInfo(1, "kworker")
    /\ collected[1].inodes = << >>
    /\ DOMAIN poolMap = {101, 201}

\* ======================================================= the ranked lists
\* the letters of display keys, in alphabetical order
Letters == <<"A", "B", "C">>

Ord(c) == CHOOSE i \in DOMAIN Letters : Letters[i] = c

\* the display keys looked at
DisplayKeys == {<<"A">>, <<"A", "B">>, <<"B">>, <<"C">>}

\* the counters of one row of an aggregate table
RowData(upB, downB, upP, downP, conns) ==
    [UploadBytes |-> upB, DownloadBytes |-> downB, UploadPackets |-> upP,
     DownloadPackets |-> downP, ConnCount |-> conns]

\* rows of 100 bytes in 2 and in 3 packets, and a row of 50 bytes of two
\* connections
RowDatas == {RowData(60, 40, 1, 1, 1), RowData(100, 0, 2, 1, 1), RowData(50, 0, 1, 1, 2)}

Modes == {"bytes", "packets", "processes"}

\* the aggregate tables looked at: display key -> counters
RankTables == UNION {[keys -> RowDatas] : keys \in SUBSET DisplayKeys}

\* the orders in which a table of these keys can be iterated
Orders(keys) ==
    {o \in UNION {[1..n -> keys] : n \in {Cardinality(keys)}} :
        \A i, j \in DOMAIN o : i # j => o[i] # o[j]}

RankInit ==
    /\ rankTable = EmptyMap
    /\ rankOrder = << >>
    /\ rankK = 0
    /\ rankMode = "bytes"
    /\ rankOut = Nil

\* a table, an iteration order of it, and the arguments of topN
RankInputs ==
    /\ rankTable \in RankTables
    /\ rankOrder \in Orders(DOMAIN rankTable)
    /\ rankK \in 0..MaxTop
    /\ rankMode \in Modes
    /\ rankOut = Nil

\* lexicographic order of display keys
RECURSIVE LexLess(_, _)
LexLess(a, b) ==
    IF b = << >> THEN FALSE
    ELSE IF a = << >> THEN TRUE
    ELSE IF Head(a) # Head(b) THEN Ord(Head(a)) < Ord(Head(b))
    ELSE LexLess(Tail(a), Tail(b))

TotalBytes(d) == d.UploadBytes + d.DownloadBytes
TotalPackets(d) == d.UploadPackets + d.DownloadPackets

\* the ordering key of a mode as a pair: the second number decides among
\* equal first numbers
SortKey(d, mode) ==
    IF mode = "bytes" THEN <<TotalBytes(d), 0>>
    ELSE IF mode = "packets" THEN <<TotalPackets(d), 0>>
    ELSE <<d.ConnCount, TotalBytes(d)>>

\* rows of equal ordering key are left in the order of the iteration
LessKeyOnly(table, mode, a, b) ==
    LET ka == SortKey(table[a], mode)
        kb == SortKey(table[b], mode)
    IN  IF ka[1] # kb[1] THEN ka[1] > kb[1]
        ELSE ka[2] > kb[2]

\* row a goes before row b: the greater ordering key first, and among equal
\* ordering keys the display key that is first in lexicographic order
Less(table, mode, a, b) ==
    LET ka == SortKey(table[a], mode)
        kb == SortKey(table[b], mode)
    IN  IF ka[1] # kb[1] THEN ka[1] > kb[1]
        ELSE IF ka[2] # kb[2] THEN ka[2] > kb[2]
        ELSE LexLess(a, b)

\* a row is put into a sorted list, behind the rows it does not go before
RECURSIVE Insert(_, _, _, _)
Insert(table, mode, sorted, a) ==
    IF sorted = << >> THEN <<a>>
    ELSE IF Less(table, mode, a, Head(sorted)) THEN <<a>> \o sorted
    ELSE <<Head(sorted)>> \o Insert(table, mode, Tail(sorted), a)

\* the rows collected in the order of the iteration and sorted
RECURSIVE Sorted(_, _, _)
Sorted(table, mode, order) ==
    IF order = << >> THEN << >>
    ELSE Insert(table, mode, Sorted(table, mode, SubSeq(order, 1, Len(order) - 1)),
                order[Len(order)])

\* topN(n, mode): the first n rows of the sorted list, all of them if there
\* are fewer
topN(table, order, n, mode) ==
    LET all == Sorted(table, mode, order) IN
    SubSeq(all, 1, IF n < Len(all) THEN n ELSE Len(all))

\* a ranked list of the snapshot is asked for
TopN ==
    /\ rankOut = Nil
    /\ rankOut' = Ptr(topN(rankTable, rankOrder, rankK, rankMode))
    /\ UNCHANGED <<rankTable, rankOrder, rankK, rankMode>>
    /\ UNCHANGED exceptRank

RankNext == TopN

\* ---------------------------------------------------- ranking properties
\* the sum a mode ranks by first, and the one it ranks by among equals
C21_First(d, mode) ==
    IF mode = "bytes" THEN d.UploadBytes + d.DownloadBytes
    ELSE IF mode = "packets" THEN d.UploadPackets + d.DownloadPackets
    ELSE d.ConnCount

C21_Second(d, mode) == IF mode = "processes" THEN d.UploadBytes + d.DownloadBytes ELSE 0

\* display key a is before display key b in lexicographic order
C21_KeyBefore(a, b) ==
    \E i \in 1..Len(b) :
       /\ \A j \in 1..(i - 1) : j <= Len(a) /\ a[j] = b[j]
       /\ IF i <= Len(a) THEN Ord(a[i]) < Ord(b[i]) ELSE i = Len(a) + 1

\* row a ranks before row b
C21_Before(a, b) ==
    LET da == rankTable[a]
        db == rankTable[b]
    IN  \/ C21_First(da, rankMode) > C21_First(db, rankMode)
        \/ /\ C21_First(da, rankMode) = C21_First(db, rankMode)
           /\ C21_Second(da, rankMode) > C21_Second(db, rankMode)
        \/ /\ C21_First(da, rankMode) = C21_First(db, rankMode)
           /\ C21_Second(da, rankMode) = C21_Second(db, rankMode)
           /\ C21_KeyBefore(a, b)

\* C21: topN(k, mode) gives min(k, number of rows) rows of the table, each
\* ranking before the next by the key of the mode and, among equal keys, by
\* the lexicographic order of the display keys, and every row left out ranks
\* behind each row given; so the list is the same whatever the order of the
\* iteration of the table.
C21_TopNIsSortedPrefix ==
    rankOut # Nil =>
        LET r == rankOut[1]
            rows == Cardinality(DOMAIN rankTable)
        IN  /\ Len(r) = IF rankK < rows THEN rankK ELSE rows
            /\ \A i \in DOMAIN r : r[i] \in DOMAIN rankTable
            /\ \A i, j \in DOMAIN r : i < j => C21_Before(r[i], r[j])
            /\ \A i \in DOMAIN r :
                 \A x \in (DOMAIN rankTable) \ SeqRange(r) : C21_Before(r[i], x)

C21_Witness ==
    /\ rankTable = [key \in {<<"A">>, <<"B">>, <<"C">>} |->
                       IF key = <<"C">> THEN RowData(50, 0, 1, 1, 2) ELSE RowData(60, 40, 1, 1, 1)]
    /\ rankOrder = << <<"C">>, <<"B">>, <<"A">> >>
    /\ rankK = 2
    /\ rankMode = "bytes"
    /\ rankOut = Ptr(<< <<"A">>, <<"B">> >>)

\* ------------------------------------------------------- specifications
\* the program on Linux: a Sink and a ProcessMonitor from NewProcessMonitor
Init ==
    /\ SinkInit
    /\ MonitorInit
    /\ PcapInit
    /\ TickInit
    /\ ConvInit
    /\ LifeInit
    /\ SnifferInit
    /\ PoolInit
    /\ RankInit

\* the Sink: readers calling Fetch, the tick task calling GetUtilization
SinkSpec == Init /\ [][SinkNext]_vars

\* a ProcessMonitor: its refresh, and readers calling GetProcess
MonitorNext ==
    \/ RefreshListFail
    \/ RefreshBegin
    \/ \E pid \in Pids : ScanFail(pid)
    \/ \E pid \in Pids : ScanResult(pid)
    \/ Sweep
    \/ SendAll
    \/ SendFail
    \/ RecvRecord
    \/ RecvDone
    \/ RecvErr
    \/ RefreshLock
    \/ RefreshSwap
    \/ \E g \in Callers : GetProcessLock(g)
    \/ \E g \in Callers : GetProcessStep(g)
    \/ \E g \in Callers : GetProcessReturn(g)

MonitorSpec == Init /\ [][MonitorNext]_vars

\* a netlinkConn used as the SocketFetcher: GetOpenSockets and the port
\* fallback, as time passes
FetcherNext ==
    \/ RefreshListFail
    \/ RefreshBegin
    \/ \E pid \in Pids : ScanFail(pid)
    \/ \E pid \in Pids : ScanResult(pid)
    \/ Sweep
    \/ SendAll
    \/ SendFail
    \/ RecvRecord
    \/ RecvDone
    \/ RecvErr
    \/ FetcherReturn
    \/ GetProcNameFallback
    \/ FallbackReturn
    \/ Tick

\* the program with a netlinkConn from GetSocketFetcher
InitFetcher ==
    /\ SinkInit
    /\ FetcherInit
    /\ PcapInit
    /\ TickInit
    /\ ConvInit
    /\ LifeInit
    /\ SnifferInit
    /\ PoolInit
    /\ RankInit

FetcherSpec == InitFetcher /\ [][FetcherNext]_vars

\* the capture client alone
PcapSpec == Init /\ [][PcapNext]_vars

\* The scheduler runs every goroutine that can take a step, so each step of a
\* reader and of Close is weakly fair.  Nothing makes a packet arrive, and
\* nothing makes the program construct or close the client.
PcapFairness ==
    /\ \A r \in Readers :
          /\ WF_vars(ListenStart(r))
          /\ WF_vars(ListenSelect(r))
          /\ WF_vars(ListenFetch(r))
          /\ WF_vars(FetchInsert(r))
          /\ WF_vars(FetchCount(r))
    /\ WF_vars(CloseWait)
    /\ WF_vars(CloseHandles)

PcapFairSpec == Init /\ [][PcapNext]_vars /\ PcapFairness

\* the Sink, its readers and the ticks, the fetcher being that of
\* GetSocketFetcher
TickSpec == InitFetcher /\ [][TickNext]_vars

\* the conversion of a port, for every pair of bytes and both byte orders
InitConv ==
    /\ SinkInit
    /\ MonitorInit
    /\ PcapInit
    /\ TickInit
    /\ ConvInputs
    /\ LifeInit
    /\ SnifferInit
    /\ PoolInit
    /\ RankInit

ConvSpec == InitConv /\ [][ConvNext]_vars

\* the ProcessMonitor of the program, from Start to Stop
LifeSpec == Init /\ [][LifeNext]_vars

\* the same life cycle on a netlinkConn whose cache maps are made
LifeMadeSpec == InitFetcher /\ [][LifeNext]_vars

\* the Sniffer of the program, from NewSniffer to the end of Close
ShutdownSpec == Init /\ [][ShutdownNext]_vars

\* a netlinkConn of GetSocketFetcher with the inputs of one getAllProcsInodes
InitPool ==
    /\ SinkInit
    /\ FetcherInit
    /\ PcapInit
    /\ TickInit
    /\ ConvInit
    /\ LifeInit
    /\ SnifferInit
    /\ PoolInputs
    /\ RankInit

\* one call of getAllProcsInodes, for every listing and /proc tree looked at
PoolSpec == InitPool /\ [][PoolNext]_vars

\* the scheduler runs a goroutine that can take a step
PoolFairness == WF_vars(PoolNext)

PoolFairSpec == PoolSpec /\ PoolFairness

\* a table of the StatsManager with the arguments of one topN
InitRank ==
    /\ SinkInit
    /\ MonitorInit
    /\ PcapInit
    /\ TickInit
    /\ ConvInit
    /\ LifeInit
    /\ SnifferInit
    /\ PoolInit
    /\ RankInputs

\* topN on every table, iteration order, number and mode looked at
RankSpec == InitRank /\ [][RankNext]_vars

Next == SinkNext \/ MonitorNext \/ PcapNext \/ TickNext \/ ConvNext \/ LifeNext \/ ShutdownNext \/ PoolNext \/ RankNext

Spec == Init /\ [][Next]_vars

====
